---- MODULE Spec2Model ----
(***************************************************************************)
(* Model of the Lieutenant voice daemon's conversation core:               *)
(*   lieutenant_daemon/state.py   StateMachine                             *)
(*   lieutenant_daemon/server.py  _on_wake, _process_stt, _query_agent,    *)
(*                                _converse_listen, _kill_switch,          *)
(*                                _audio_frame_handler                     *)
(*   lieutenant_daemon/stt.py     STTEngine (utterance window, worker)     *)
(*   lieutenant_daemon/tts.py     TTSEngine (speak, cancel, is_playing)    *)
(*                                                                         *)
(* The control loop is a single asyncio thread: a coroutine runs from one  *)
(* await that suspends to the next without interruption.  Each action of   *)
(* Spec is one such run of one coroutine (a task), or one step of a worker *)
(* thread or of the environment (a request, a token, an audio frame).      *)
(***************************************************************************)
EXTENDS Integers, Sequences, FiniteSets, TLC

\* ---------------------------------------------------------------- bounds
\* Coroutines (tasks) alive together on the control loop.
MaxTasks == 3
\* Wake requests (spotter, /control/wake, push-to-talk, barge-in) in a run.
MaxWake == 2
\* Kill-switch requests in a run.
MaxKill == 1
\* Requests of either kind in a run.
MaxRequests == 2
\* Wake requests in a run that starts with a reply being spoken.
MaxBargeIn == 1
\* Tokens the reasoning backend streams for one reply.
MaxTokens == 2
\* Results waiting in the STT result queue.
MaxResults == 1
\* Transcription worker threads alive together.
MaxWorkers == 2
\* Ticks of the clock in a run of the audio path; a tick is 16 ms.
MaxTime == 40
\* The shortest playback, in ticks: one audio block.
MinPlayTicks == 4
MaxFires == 2
MaxWords == 6
MaxListeners == 2
MaxCalls == 3

\* ------------------------------------------------- constants of the code
\* audio_capture.BLOCK_SIZE: a block of 1024 samples at 16 kHz is 64 ms,
\* four ticks (audio_capture.py:14-16).
BLOCK_TICKS == 4
\* server._TTS_ECHO_GUARD_S: 0.5 s is 31.25 ticks; the whole ticks of it
\* (server.py:113).
TTS_ECHO_GUARD_S == 31
\* No instant: nothing has happened yet.
NoTime == 0 - 1

\* --------------------------------------------------------------- state.py
\* class State (state.py:14-19)
State == {"IDLE", "LISTENING", "THINKING", "SPEAKING", "CONVERSING"}

\* The pairs of the transition table the daemon is specified to follow;
\* the last line is the kill switch's "any -> Idle".
LegalPairs ==
    { <<"IDLE", "LISTENING">>, <<"LISTENING", "THINKING">>,
      <<"LISTENING", "IDLE">>, <<"THINKING", "SPEAKING">>,
      <<"SPEAKING", "IDLE">>, <<"SPEAKING", "CONVERSING">>,
      <<"SPEAKING", "LISTENING">>, <<"CONVERSING", "LISTENING">>,
      <<"CONVERSING", "IDLE">> }
KillPairs == { <<s, "IDLE">> : s \in State \ {"IDLE"} }

\* ------------------------------------------------------------- variables
VARIABLES
    sm_state,              \* StateMachine._state
    sm_lock,               \* StateMachine._lock: the task holding it, 0 = free
    sm_waiters,            \* tasks queued on StateMachine._lock, FIFO
    hub_queue,             \* tasks inside a hub broadcast, FIFO (WSHub._lock)
    wake_enabled,          \* WakeDetector._enabled
    stt_active,            \* STTEngine._active
    stt_speech,            \* STTEngine._speech_detected
    stt_sentinel,          \* a None sentinel waits in STTEngine._audio_queue
    stt_workers,           \* transcription threads, in start order
    result_queue,          \* STTEngine._result_queue
    tts_playing,           \* TTSEngine._playing
    tts_cancelled,         \* TTSEngine._cancelled
    conversation_history,  \* server._conversation_history (roles)
    converse_task,         \* server._converse_task: the task, 0 = None / done
    converse_enabled,      \* server._CONVERSE_ENABLED (configuration)
    tasks,                 \* the coroutines of the control loop
    requests,              \* the requests made so far, in order
    now,                   \* time.time() in ticks, as the audio thread reads it
    tts_started_at,        \* when the running playback began
    tts_stopped_at,        \* when is_playing last became false
    tts_echo_suppress_until, \* server._tts_echo_suppress_until
    stt_fed_at,            \* capture time of the last frame given to feed_audio
    bargein_high_frames,   \* server._bargein_high_frames
    bargein_triggered,     \* server._bargein_triggered
    bargein_tts_was_playing, \* server._bargein_tts_was_playing
    bargein_cooling,       \* now - _bargein_speaking_since < cooldown
    bargein_guarding,      \* now - _bargein_tts_stopped_at < post-TTS guard
    bargein_reset_due,     \* _query_agent is between server.py:533 and :535
    bargein_run,           \* qualifying frames in a row, up to the last frame
    bargein_fires,         \* times the tracker fired in this Speaking session
    bargein_echo,          \* playback stopped less than the guard ago
    agent_stored,          \* server._conversation_history, with contents
    agent_messages,        \* "messages" of the payload sent to the backend
    tts_calls,             \* the calls of TTSEngine.speak, each where it is
    tts_proc,              \* the call whose player TTSEngine._process is
    spot_queue,            \* WakeDetector._audio_queue, frames by number
    spot_taken,            \* the frames the spotter's thread has taken
    spot_fed,              \* frames the capture thread has offered so far
    flush_buf,             \* tts_buffer as _should_flush_tts is given it
    flush_out,             \* what _should_flush_tts decided
    hub_clients,           \* WSHub._clients
    hub_broken,            \* sockets whose send_text raises
    hub_got,               \* messages each socket has been sent
    hub_sent,              \* broadcasts made so far
    hub_raised,            \* the last broadcast raised to its caller
    heard_words,           \* the words of Whisper's good segments, joined
    heard_speech,          \* STTEngine._speech_detected for that window
    window_mode,           \* who consumes the final text of the window
    filter_pc,             \* how far the final text has come
    final_text,            \* the final text, as a sequence of words
    sm_listeners,          \* StateMachine._listeners: what each one does
    sm_iter,               \* per task, the listener its for-loop is at
    sm_calls,              \* the listener invocations so far, in order
    sm_changes,            \* the states assigned to _state so far, in order
    sm_made,               \* the calls of transition so far
    fault                  \* where the last exception of a turn was raised

\* The clock and what the audio thread's frame handler reads and writes.
audioVars == << now, tts_started_at, tts_stopped_at, tts_echo_suppress_until,
                stt_fed_at >>

\* The barge-in tracker of the audio thread (server.py:116-121) and what
\* is recorded about its firing.
bargeVars == << bargein_high_frames, bargein_triggered,
                bargein_tts_was_playing, bargein_cooling, bargein_guarding,
                bargein_reset_due, bargein_run, bargein_fires,
                bargein_echo >>

\* The final text of one window on its way through the repetition filters.
filterVars == << heard_words, heard_speech, window_mode, filter_pc,
                 final_text >>

\* What the control loop's steps leave alone.
\* The listeners of the state machine and the record of what it did.
notifyVars == << sm_listeners, sm_iter, sm_calls, sm_changes, sm_made >>

\* The exceptions raised in the coroutines of a turn.
faultVars == << fault >>
\* The parts of the daemon taken one at a time further down.
agentVars == << agent_stored, agent_messages >>
speakVars == << tts_calls, tts_proc >>
spotVars == << spot_queue, spot_taken, spot_fed >>
flushVars == << flush_buf, flush_out >>
hubVars == << hub_clients, hub_broken, hub_got, hub_sent, hub_raised >>
unitVars == << agentVars, speakVars, spotVars, flushVars, hubVars >>

sideVars == << audioVars, bargeVars, filterVars, notifyVars, faultVars,
              unitVars >>
\* The daemon but for those parts, the flags of the TTS engine and the
\* spotter's switch.
restVars == << sm_state, sm_lock, sm_waiters, hub_queue,
              stt_active, stt_speech, stt_sentinel, stt_workers,
              result_queue, conversation_history,
              converse_task, converse_enabled, tasks, requests, audioVars,
              bargeVars, filterVars, notifyVars, faultVars >>

vars == << sm_state, sm_lock, sm_waiters, hub_queue, wake_enabled, stt_active,
           stt_speech, stt_sentinel, stt_workers,
           result_queue, tts_playing, tts_cancelled, conversation_history,
           converse_task, converse_enabled, tasks, requests,
           sideVars >>

Slots == 1..MaxTasks

\* A transcript as the orchestrator tells them apart:
\*   "empty"    ""                         (the thread held no audio)
\*   "sentinel" "(no speech detected)"     (worker recognised nothing)
\*   "plain"    a transcript that is not two repeated halves
\*   "repeat"   four or more words, first half = second half
TextKind == {"empty", "sentinel", "plain", "repeat"}

\* A task (coroutine) of the control loop:
\*   pc    where it is suspended          tgt, cont  the transition it is in
\*   mode  the listening procedure it runs: "wake" _process_stt, "cont"
\*         _process_stt_continuation, "conv" the drain of _converse_listen
\*   ft    final_text                     full  full_response is not empty
\*   buf   tts_buffer.strip() is not empty   ntok  tokens received
\*   say   its synthesis task tts_task: none, pending, speaking, done
Free == [pc |-> "free", tgt |-> "IDLE", cont |-> "none", mode |-> "wake",
         ft |-> "empty", full |-> FALSE, buf |-> FALSE, ntok |-> 0,
         say |-> "none"]

IsFree(t) == tasks[t].pc = "free"
FreeSlots == { t \in Slots : IsFree(t) }
\* The slot a new task takes.
NewSlot == CHOOSE t \in FreeSlots : \A u \in FreeSlots : t <= u

\* ------------------------------------------------ state.py: StateMachine
\* A transition that assigns and notifies whatever the state is.
transition_notifies(old, new) == [state |-> new, invoked |-> TRUE]

\* StateMachine.transition (state.py:37-48), the part run under the lock:
\* the state after the call, and whether the listeners are invoked.
transition(old, new) ==
    IF old = new
    THEN [state |-> old, invoked |-> FALSE]
    ELSE [state |-> new, invoked |-> TRUE]

\* A lock that lets every caller in.
LockNeverHeld(L, W) == L \in 0..MaxTasks

\* asyncio.Lock.acquire takes the lock without suspending only when it is
\* free and nobody is queued (state.py:38).
LockFree(L, W) == L = 0 /\ W = <<>>

\* Task t, whose record is about to be rec, calls
\*   await sm.transition(new); await hub.send_state(new)
\* and goes on at cont afterwards.  T, L, W, H are tasks, sm_lock,
\* sm_waiters and hub_queue as the caller leaves them.  With the lock free
\* the state changes at once and the task suspends in the listener's
\* broadcast, holding the lock (for a no-op, in hub.send_state, without
\* it); it runs from there through hub.send_state to cont in one step.
CallTransition(t, rec, new, cont, T, L, W, H) ==
    LET r == transition(sm_state, new) IN
    IF LockFree(L, W)
    THEN /\ sm_state' = r.state
         /\ sm_lock' = IF r.invoked THEN t ELSE 0
         /\ sm_waiters' = W
         /\ hub_queue' = Append(H, t)
         /\ tasks' = [T EXCEPT ![t] =
                [rec EXCEPT !.pc = "tr_sent", !.tgt = new, !.cont = cont]]
    ELSE /\ sm_state' = sm_state
         /\ sm_lock' = L
         /\ sm_waiters' = Append(W, t)
         /\ hub_queue' = H
         /\ tasks' = [T EXCEPT ![t] =
                [rec EXCEPT !.pc = "tr_wait", !.tgt = new, !.cont = cont]]

\* A task suspended in a hub broadcast resumes when the broadcasts queued
\* before its own are done (ws_hub.py:39-51, WSHub._lock is FIFO).
HubTurn(t) == hub_queue # <<>> /\ Head(hub_queue) = t

\* ------------------------------------------------------ tts.py: TTSEngine
\* TTSEngine.speak up to its first await (tts.py:88-89)
speak_begin == [playing |-> TRUE, cancelled |-> FALSE]
\* TTSEngine.speak returning, completed or not (tts.py:94-113)
speak_end(cancelled) == [playing |-> FALSE, cancelled |-> cancelled]
\* TTSEngine.cancel (tts.py:72-81)
tts_cancel == [playing |-> FALSE, cancelled |-> TRUE]

\* ------------------------------------------------------ stt.py: STTEngine
\* A transcription thread: "run" consuming frames, "fin" out of its loop and
\* transcribing the final result, "dead" ended (only the latest thread,
\* STTEngine._thread, is kept once dead).
Worker == [st : {"run", "fin", "dead"}]
Result == [final : BOOLEAN, text : TextKind]
LiveWorkers(ws) == SelectSeq(ws, LAMBDA w : w.st # "dead")
\* STTEngine._thread.is_alive() (stt.py:309)
ThreadAlive(ws) == ws # <<>> /\ ws[Len(ws)].st # "dead"

\* STTEngine.start_utterance (stt.py:125-163)
start_utterance(ws) ==
    [active |-> TRUE, speech |-> FALSE, sentinel |-> FALSE, results |-> <<>>,
     workers |-> Append(LiveWorkers(ws), [st |-> "run"])]
\* STTEngine.stop_utterance (stt.py:165-177)
stop_utterance == [active |-> FALSE, sentinel |-> TRUE]

CanStart == Len(LiveWorkers(stt_workers)) < MaxWorkers

StartUtterance ==
    LET s == start_utterance(stt_workers) IN
    /\ stt_active' = s.active
    /\ stt_speech' = s.speech
    /\ stt_sentinel' = s.sentinel
    /\ result_queue' = s.results
    /\ stt_workers' = s.workers

StopUtterance ==
    /\ stt_active' = stop_utterance.active
    /\ stt_sentinel' = stop_utterance.sentinel
    /\ UNCHANGED << stt_speech, stt_workers, result_queue >>

sttVars == << stt_active, stt_speech, stt_sentinel,
              stt_workers, result_queue >>
ttsVars == << tts_playing, tts_cancelled >>
smVars == << sm_state, sm_lock, sm_waiters >>

\* ------------------------------------------- server.py: barge-in tracker
BARGEIN_FRAMES_NEEDED == 8

\* The tracker as the module is loaded (server.py:117-121): both timestamps
\* are 0.0, so neither the cooldown nor the post-TTS guard is running.
UnitRest ==
    /\ bargein_high_frames = 0
    /\ bargein_triggered = FALSE
    /\ bargein_tts_was_playing = FALSE
    /\ bargein_cooling = FALSE
    /\ bargein_guarding = FALSE
    /\ bargein_reset_due = FALSE
    /\ bargein_run = 0
    /\ bargein_fires = 0
    /\ bargein_echo = FALSE
    /\ sm_listeners = <<>>
    /\ sm_iter = [t \in Slots |-> 0]
    /\ sm_calls = <<>>
    /\ sm_changes = <<>>
    /\ sm_made = 0
    /\ fault = "none"

\* ------------------------------------------------------------------ Init
\* The daemon as run_server leaves it (server.py:98-121, 874-925).
CtlRest ==
    /\ sm_state = "IDLE"
    /\ sm_lock = 0
    /\ sm_waiters = <<>>
    /\ hub_queue = <<>>
    /\ wake_enabled = TRUE
    /\ stt_active = FALSE
    /\ stt_speech = FALSE
    /\ stt_sentinel = FALSE
    /\ stt_workers = <<>>
    /\ result_queue = <<>>
    /\ tts_playing = FALSE
    /\ tts_cancelled = FALSE
    /\ conversation_history = <<>>
    /\ converse_task = 0
    /\ converse_enabled \in BOOLEAN
    /\ tasks = [t \in Slots |-> Free]
    /\ requests = <<>>
    /\ now = 0
    /\ tts_started_at = NoTime
    /\ tts_stopped_at = NoTime
    /\ tts_echo_suppress_until = 0
    /\ stt_fed_at = NoTime
    /\ UnitRest

\* No final text is on its way.
FilterRest ==
    /\ heard_words = <<>>
    /\ heard_speech = FALSE
    /\ window_mode = "wake"
    /\ filter_pc = "idle"
    /\ final_text = <<>>

\* The web sockets of a run of the hub alone, and its broadcasts.
MaxClients == 3
MaxMsgs == 2
Sockets == 1..MaxClients

\* The characters a reply is made of, as _should_flush_tts tells them
\* apart: a letter, a digit, a sentence-terminal character, a space, a
\* newline (terminal and white space at once).
Chars == {"a", "1", ".", " ", "nl"}

\* Calls of TTSEngine.speak in a run of the engine alone.
MaxSpeaks == 2
\* A call of speak with one sentence: "idle" not made yet, "synth" in
\* communicate.save, "play" in the loop of _play_audio_file with its player
\* running, "dead" in that loop with its player killed, "over" in that
\* loop with its player ended by itself, "ret" returned.  hit: cancel was
\* called while the call was in flight; ok: what the call returned.
SpeakCall == [st : {"idle", "synth", "play", "dead", "over", "ret"},
              hit : BOOLEAN, ok : BOOLEAN]
NoCall == [st |-> "idle", hit |-> FALSE, ok |-> FALSE]

\* The parts taken one at a time are as the daemon starts them, but for
\* the one looked at.
PartsRest(part) ==
    /\ part # "agent" => (agent_stored = <<>> /\ agent_messages = <<>>)
    /\ tts_calls = [c \in 1..MaxSpeaks |-> NoCall]
    /\ tts_proc = 0
    /\ spot_queue = <<>> /\ spot_taken = <<>> /\ spot_fed = 0
    /\ part # "flush" => (flush_buf = <<>> /\ flush_out = "none")
    /\ hub_clients = {} /\ hub_broken = {}
    /\ hub_got = [ws \in Sockets |-> 0]
    /\ hub_sent = 0 /\ hub_raised = FALSE

Init == CtlRest /\ FilterRest /\ PartsRest("none")

\* ------------------------------------------------- asyncio: Task.cancel()
Remove(seq, x) == SelectSeq(seq, LAMBDA y : y # x)
\* The places where _query_agent awaits its synthesis task (server.py:543,
\* 548, 552): cancelling the awaiting task cancels the awaited one too.
JoinPcs == {"qa_join_loop", "qa_join_rest", "qa_join_last"}
\* What is left of a cancelled task: nothing, or its synthesis task
\* (_speak_sentence), which nobody awaits any more and which runs on.
Cancelled(rec) ==
    IF rec.pc \notin JoinPcs /\ rec.say \in {"pending", "speaking"}
    THEN [Free EXCEPT !.pc = "orphan", !.say = rec.say]
    ELSE Free
\* "if _converse_task and not _converse_task.done(): _converse_task.cancel()"
\* (server.py:366-368, 840-842).  CancelledError is no Exception: none of
\* the handlers of the task catches it; leaving "async with" releases the
\* locks the task holds or waits for.
CancelT(c) == IF c = 0 THEN tasks ELSE [tasks EXCEPT ![c] = Cancelled(tasks[c])]
CancelL(c) == IF c # 0 /\ sm_lock = c THEN 0 ELSE sm_lock
CancelW(c) == IF c = 0 THEN sm_waiters ELSE Remove(sm_waiters, c)
CancelH(c) == IF c = 0 THEN hub_queue ELSE Remove(hub_queue, c)

FreeIn(T) == { t \in Slots : T[t].pc = "free" }
NewSlotIn(T) == CHOOSE t \in FreeIn(T) : \A u \in FreeIn(T) : t <= u

\* ---------------------------------------------- server.py: _on_wake entry
\* _on_wake up to its first suspension (server.py:361-395).  It is entered
\* by the spotter's and the barge-in tracker's scheduled coroutine, by
\* POST /control/wake, and by push-to-talk start.
on_wake ==
    LET c == converse_task
        T == CancelT(c)
        L == CancelL(c)
        W == CancelW(c)
        H == CancelH(c)
    IN
    /\ converse_task' = 0
    /\ CASE sm_state = "CONVERSING" ->
              /\ FreeIn(T) # {}
              /\ CallTransition(NewSlotIn(T), Free, "LISTENING", "wk_start",
                                T, L, W, H)
              /\ UNCHANGED << wake_enabled, ttsVars >>
         [] sm_state = "SPEAKING" ->
              /\ FreeIn(T) # {}
              /\ tts_playing' = tts_cancel.playing
              /\ tts_cancelled' = tts_cancel.cancelled
              /\ CallTransition(NewSlotIn(T), Free, "LISTENING", "wk_barge",
                                T, L, W, H)
              /\ UNCHANGED wake_enabled
         [] sm_state = "IDLE" ->
              /\ FreeIn(T) # {}
              /\ wake_enabled' = FALSE
              /\ CallTransition(NewSlotIn(T), Free, "LISTENING", "wk_ack",
                                T, L, W, H)
              /\ UNCHANGED ttsVars
         [] OTHER ->
              /\ tasks' = T /\ sm_lock' = L /\ sm_waiters' = W
              /\ hub_queue' = H
              /\ UNCHANGED << sm_state, wake_enabled, ttsVars >>
    /\ UNCHANGED << sttVars, conversation_history, converse_enabled, sideVars >>

\* The wake and the kill-switch requests made so far.
nWake == Len(SelectSeq(requests, LAMBDA r : r = "wake"))
nKill == Len(SelectSeq(requests, LAMBDA r : r = "kill"))
\* Another wake request fits the bounds.
CanWake == nWake < MaxWake /\ nWake + nKill < MaxRequests
\* Another kill-switch request fits the bounds.
CanKill == nKill < MaxKill /\ nWake + nKill < MaxRequests

\* A wake phrase, a barge-in trigger or POST /control/wake (server.py:189-194,
\* 833; wake.py:173) runs the handler.
OnWake ==
    /\ CanWake
    /\ requests' = Append(requests, "wake")
    /\ on_wake

\* POST /control/push_to_talk/start (server.py:204-208)
PttStart ==
    /\ CanWake
    /\ requests' = Append(requests, "wake")
    /\ sm_state = "IDLE"
    /\ on_wake

\* POST /control/push_to_talk/stop (server.py:211-215)
PttStop ==
    /\ sm_state = "LISTENING"
    /\ StopUtterance
    /\ UNCHANGED << smVars, hub_queue, wake_enabled, ttsVars,
                    conversation_history, converse_task, converse_enabled, sideVars,
                    tasks, requests >>

\* ------------------------------------------- state.py: transition, queued
\* A task queued on the lock gets it (state.py:38-42).
TrAcquire(t) ==
    /\ tasks[t].pc = "tr_wait"
    /\ sm_lock = 0
    /\ sm_waiters # <<>> /\ Head(sm_waiters) = t
    /\ LET r == transition(sm_state, tasks[t].tgt) IN
        /\ sm_state' = r.state
        /\ sm_lock' = IF r.invoked THEN t ELSE 0
        /\ tasks' = [tasks EXCEPT ![t].pc = "tr_sent"]
    /\ sm_waiters' = Tail(sm_waiters)
    /\ hub_queue' = Append(hub_queue, t)
    /\ UNCHANGED << wake_enabled, sttVars, ttsVars, conversation_history,
                    converse_task, converse_enabled, sideVars, requests >>

\* Leaving "async with self._lock" (state.py:38-48)
Unlock(t) == IF sm_lock = t THEN 0 ELSE sm_lock

\* A task back from the listener's broadcast: it releases the lock, and
\* is through "await hub.send_state(...)" and about to run cont.
Back(t, cont) ==
    /\ tasks[t].pc = "tr_sent"
    /\ tasks[t].cont = cont
    /\ HubTurn(t)
    /\ sm_lock' = Unlock(t)
    /\ UNCHANGED << sm_state, sm_waiters >>

\* The coroutine returns after its last hub.send_state
\* (server.py:505-506, 577, 675, 726-727, 850).
TrReturn(t) ==
    /\ \/ Back(t, "ps_idle")
       \/ Back(t, "qa_idle")
       \/ Back(t, "cv_idle")
       \/ Back(t, "ks_done")
    /\ hub_queue' = Tail(hub_queue)
    /\ tasks' = [tasks EXCEPT ![t] = Free]
    /\ converse_task' = IF converse_task = t THEN 0 ELSE converse_task
    /\ UNCHANGED << wake_enabled, sttVars, ttsVars,
                    conversation_history, converse_enabled, sideVars, requests >>

\* ------------------------------------------- server.py: _start_listening
\* _start_listening (server.py:420-428): the task goes on as the new
\* _process_stt task.
StartListening(t) ==
    /\ CanStart
    /\ wake_enabled' = FALSE
    /\ StartUtterance
    /\ tasks' = [tasks EXCEPT ![t] = [Free EXCEPT !.pc = "ps_loop"]]

\* _on_wake after the transition, in Speaking or Conversing
\* (server.py:375-376, 385-386)
WakeStartListening(t) ==
    /\ Back(t, "wk_start") \/ Back(t, "wk_barge")
    /\ hub_queue' = Tail(hub_queue)
    /\ StartListening(t)
    /\ UNCHANGED << ttsVars, conversation_history, converse_task,
                    converse_enabled, sideVars, requests >>

\* _on_wake after the transition, in Idle: the acknowledgement task is
\* created (server.py:397-400)
WakeAck(t) ==
    /\ Back(t, "wk_ack")
    /\ hub_queue' = Tail(hub_queue)
    /\ tasks' = [tasks EXCEPT ![t] = [Free EXCEPT !.pc = "ack_begin"]]
    /\ UNCHANGED << wake_enabled, sttVars, ttsVars,
                    conversation_history, converse_task, converse_enabled, sideVars,
                    requests >>

\* ------------------------------------- server.py: _speak_ack_then_listen
\* tts.speak(ack) starts (server.py:408, tts.py:88-89)
AckSpeak(t) ==
    /\ tasks[t].pc = "ack_begin"
    /\ tts_playing' = speak_begin.playing
    /\ tts_cancelled' = speak_begin.cancelled
    /\ tasks' = [tasks EXCEPT ![t].pc = "ack_speak"]
    /\ UNCHANGED << smVars, hub_queue, wake_enabled, sttVars,
                    conversation_history, converse_task, converse_enabled, sideVars,
                    requests >>

\* tts.speak(ack) returns, played or cut short (tts.py:97-113); the task
\* then sleeps 0.3 s (server.py:412)
AckSpoken(t) ==
    /\ tasks[t].pc = "ack_speak"
    /\ tts_playing' = speak_end(tts_cancelled).playing
    /\ tts_cancelled' = speak_end(tts_cancelled).cancelled
    /\ tasks' = [tasks EXCEPT ![t].pc = "ack_sleep"]
    /\ UNCHANGED << smVars, hub_queue, wake_enabled, sttVars,
                    conversation_history, converse_task, converse_enabled, sideVars,
                    requests >>

\* After the sleep: listen if the state is still Listening
\* (server.py:414-417)
AckDone(t) ==
    /\ tasks[t].pc = "ack_sleep"
    /\ IF sm_state = "LISTENING"
       THEN StartListening(t)
       ELSE /\ tasks' = [tasks EXCEPT ![t] = Free]
            /\ UNCHANGED << wake_enabled, sttVars >>
    /\ UNCHANGED << smVars, hub_queue, ttsVars, conversation_history,
                    converse_task, converse_enabled, sideVars, requests >>

\* ---------------------------------------------- server.py: _kill_switch
\* _kill_switch up to its first suspension (server.py:836-849); entered by
\* POST /control/stop (server.py:197-201).
kill_switch ==
    LET c == converse_task
        T == CancelT(c)
    IN
    /\ FreeIn(T) # {}
    /\ converse_task' = 0
    /\ tts_playing' = tts_cancel.playing
    /\ tts_cancelled' = tts_cancel.cancelled
    /\ StopUtterance
    /\ wake_enabled' = TRUE
    /\ conversation_history' = <<>>
    /\ CallTransition(NewSlotIn(T), Free, "IDLE", "ks_done",
                      T, CancelL(c), CancelW(c), CancelH(c))

KillSwitch ==
    /\ CanKill
    /\ requests' = Append(requests, "kill")
    /\ kill_switch
    /\ UNCHANGED << converse_enabled, sideVars >>

\* --------------------------------------------- stt.py: STTEngine.results
\* What "async for result in stt.results()" hands the loop next
\* (stt.py:298-312): a queued result; on the 0.1 s timeout a heartbeat
\* STTResult("") while the window is open; the end of the stream once the
\* window is closed, the queue empty and the latest thread dead.
Heartbeat == [final |-> FALSE, text |-> "empty"]
HasItem == result_queue # <<>> \/ stt_active
NextItem == IF result_queue # <<>> THEN Head(result_queue) ELSE Heartbeat
Dequeue == IF result_queue # <<>> THEN Tail(result_queue) ELSE result_queue
StreamEnds ==
    result_queue = <<>> /\ ~stt_active /\ ~ThreadAlive(stt_workers)

\* ------------------------------------------------ server.py: _process_stt
\* Every text sends the machine back to Idle.
IsNoSpeechAlways(ft) == ft \in TextKind

\* The texts that send the machine back to Idle (server.py:499)
IsNoSpeech(ft) == ft \in {"empty", "sentinel"}

\* The hallucination filter of _process_stt (server.py:486-497).
process_stt_filter(speech, ft) ==
    IF ~speech /\ ft = "repeat" THEN "empty" ELSE ft

\* The filter of _process_stt_continuation (server.py:719-720)
continuation_filter(speech, ft) == IF ~speech THEN "empty" ELSE ft

\* One pass of the first loop of _process_stt (server.py:437-463) or of
\* _process_stt_continuation (server.py:685-705).
\* timer: MAX_LISTEN_SECONDS has passed since the loop began;
\* silence, maxdur: what stt.silence_detected and
\* stt.max_duration_reached (stt.py:272-292) answer, which rests on the
\* clock and on the frames counted since the window opened.
PsItem(t, timer, silence, maxdur) ==
    /\ tasks[t].pc = "ps_loop"
    /\ HasItem
    /\ IF sm_state # "LISTENING"
       THEN /\ tasks' = [tasks EXCEPT ![t].pc = "ps_drain"]
            /\ result_queue' = Dequeue
            /\ UNCHANGED << stt_active, stt_sentinel, hub_queue >>
       ELSE IF timer \/ silence \/ maxdur
       THEN /\ tasks' = [tasks EXCEPT ![t].pc = "ps_drain"]
            /\ result_queue' = Dequeue
            /\ stt_active' = stop_utterance.active
            /\ stt_sentinel' = stop_utterance.sentinel
            /\ UNCHANGED hub_queue
       ELSE IF NextItem.final
       THEN /\ tasks' = [tasks EXCEPT ![t].pc = "ps_fsent",
                                      ![t].ft = NextItem.text]
            /\ result_queue' = Dequeue
            /\ hub_queue' = Append(hub_queue, t)
            /\ UNCHANGED << stt_active, stt_sentinel >>
       ELSE /\ result_queue' = Dequeue
            /\ UNCHANGED << tasks, stt_active, stt_sentinel, hub_queue >>
    /\ UNCHANGED << smVars, wake_enabled, stt_speech, stt_workers, ttsVars,
                    conversation_history, converse_task, converse_enabled, sideVars,
                    requests >>

\* The result stream ends under the first loop (stt.py:308-311)
PsStreamEnd(t) ==
    /\ tasks[t].pc = "ps_loop"
    /\ StreamEnds
    /\ tasks' = [tasks EXCEPT ![t].pc = "ps_drain"]
    /\ UNCHANGED << smVars, hub_queue, wake_enabled, sttVars, ttsVars,
                    conversation_history, converse_task, converse_enabled, sideVars,
                    requests >>

\* The end of _process_stt (server.py:486-510), of
\* _process_stt_continuation (server.py:719-731) and of _converse_listen
\* with speech (server.py:665-675): filter, then Idle or Thinking.  rec is
\* the task's record, H the hub queue without the task.
PsDecide(t, rec, H) ==
    LET ft == CASE rec.mode = "wake" -> process_stt_filter(stt_speech, rec.ft)
                [] rec.mode = "cont" -> continuation_filter(stt_speech, rec.ft)
                [] OTHER -> rec.ft
    IN
    IF IsNoSpeech(ft)
    THEN /\ wake_enabled' = TRUE
         /\ CallTransition(t, [rec EXCEPT !.ft = ft], "IDLE", "ps_idle",
                           tasks, sm_lock, sm_waiters, H)
    ELSE /\ wake_enabled' = wake_enabled
         /\ CallTransition(t, [rec EXCEPT !.ft = ft], "THINKING", "qa_open",
                           tasks, sm_lock, sm_waiters, H)

\* The drain loop of _process_stt (server.py:471-481): a final result is
\* kept, anything else is dropped.
PsDrainItem(t) ==
    /\ tasks[t].pc = "ps_drain"
    /\ result_queue # <<>>
    /\ result_queue' = Tail(result_queue)
    /\ IF Head(result_queue).final
       THEN /\ tasks' = [tasks EXCEPT ![t].pc = "ps_dsent",
                                      ![t].ft = Head(result_queue).text]
            /\ hub_queue' = Append(hub_queue, t)
       ELSE UNCHANGED << tasks, hub_queue >>
    /\ UNCHANGED << smVars, wake_enabled, stt_active, stt_speech,
                    stt_sentinel, stt_workers, ttsVars,
                    conversation_history, converse_task, converse_enabled, sideVars,
                    requests >>

\* The drain loop finds the stream ended: no final text
PsDrainEnd(t) ==
    /\ tasks[t].pc = "ps_drain"
    /\ StreamEnds
    /\ PsDecide(t, tasks[t], hub_queue)
    /\ UNCHANGED << sttVars, ttsVars, conversation_history, converse_task,
                    converse_enabled, sideVars, requests >>

\* Back from hub.send_stt_final (server.py:458-459, 478-479): a final
\* result with no text taken in the first loop leaves final_text empty,
\* and the drain loop is entered (server.py:471).
PsFinalSent(t) ==
    /\ tasks[t].pc \in {"ps_fsent", "ps_dsent"}
    /\ HubTurn(t)
    /\ IF tasks[t].pc = "ps_fsent" /\ tasks[t].ft = "empty"
       THEN /\ tasks' = [tasks EXCEPT ![t].pc = "ps_drain"]
            /\ hub_queue' = Tail(hub_queue)
            /\ UNCHANGED << smVars, wake_enabled >>
       ELSE PsDecide(t, tasks[t], Tail(hub_queue))
    /\ UNCHANGED << sttVars, ttsVars, conversation_history, converse_task,
                    converse_enabled, sideVars, requests >>

\* ------------------------------------ stt.py: the transcription thread
SetWorker(i, w) == [stt_workers EXCEPT ![i] = w]
\* A thread that ends: it stays, dead, as STTEngine._thread if it is the
\* latest one.
EndWorker(i) ==
    IF i = Len(stt_workers)
    THEN [stt_workers EXCEPT ![i] = [st |-> "dead"]]
    ELSE [j \in 1..(Len(stt_workers) - 1) |->
            IF j < i THEN stt_workers[j] ELSE stt_workers[j + 1]]

\* The thread takes the sentinel off the audio queue (stt.py:353-355)
WorkerSentinel(i) ==
    /\ i <= Len(stt_workers)
    /\ stt_workers[i].st = "run"
    /\ stt_sentinel
    /\ stt_sentinel' = FALSE
    /\ stt_workers' = SetWorker(i, [st |-> "fin"])
    /\ UNCHANGED << smVars, hub_queue, wake_enabled, stt_active, stt_speech,
                    result_queue, ttsVars, conversation_history,
                    converse_task, converse_enabled, sideVars, tasks, requests >>

\* The thread sees the window closed (stt.py:356-357, 388-390)
WorkerInactive(i) ==
    /\ i <= Len(stt_workers)
    /\ stt_workers[i].st = "run"
    /\ ~stt_active
    /\ stt_workers' = SetWorker(i, [st |-> "fin"])
    /\ UNCHANGED << smVars, hub_queue, wake_enabled, stt_active, stt_speech,
                    stt_sentinel, result_queue, ttsVars,
                    conversation_history, converse_task, converse_enabled, sideVars,
                    tasks, requests >>

\* The texts the final pass can give (stt.py:394-450): "" when the thread
\* holds no audio; else a transcript, possibly a short repeated one the
\* thread's own six-word filter lets through, or "(no speech detected)".
FinalTexts == TextKind

\* The thread puts its final result and ends (stt.py:442-450)
WorkerFinal(i) ==
    /\ i <= Len(stt_workers)
    /\ stt_workers[i].st = "fin"
    /\ Len(result_queue) <= MaxResults
    /\ \E x \in FinalTexts :
          result_queue' = Append(result_queue, [final |-> TRUE, text |-> x])
    /\ stt_workers' = EndWorker(i)
    /\ UNCHANGED << smVars, hub_queue, wake_enabled, stt_active, stt_speech,
                    stt_sentinel, ttsVars, conversation_history,
                    converse_task, converse_enabled, sideVars, tasks, requests >>

\* The thread, given a frame while the window is open and speech is
\* detected, puts a partial result with text (stt.py:353-387)
WorkerPartial(i) ==
    /\ i <= Len(stt_workers)
    /\ stt_workers[i].st = "run"
    /\ stt_active /\ stt_speech
    /\ Len(result_queue) < MaxResults
    /\ result_queue' = Append(result_queue, [final |-> FALSE, text |-> "plain"])
    /\ UNCHANGED << smVars, hub_queue, wake_enabled, stt_active, stt_speech,
                    stt_sentinel, stt_workers, ttsVars,
                    conversation_history, converse_task, converse_enabled, sideVars,
                    tasks, requests >>

\* ------------------------------- server.py: _audio_frame_handler, the STT
\* A captured frame reaches stt.feed_audio (server.py:907-912) and is
\* accepted (stt.py:181-197); speech: the detectors take it for speech.
FeedAudio(speech) ==
    /\ ~tts_playing
    /\ stt_active
    /\ stt_speech' = (stt_speech \/ speech)
    /\ UNCHANGED << smVars, hub_queue, wake_enabled, stt_active, stt_sentinel,
                    stt_workers, result_queue, ttsVars, conversation_history,
                    converse_task, converse_enabled, sideVars, tasks, requests >>

\* ----------------------------------------------- server.py: _query_agent
\* _MAX_HISTORY (server.py:90), taken small
MAX_HISTORY == 2

\* The history update of _query_agent (server.py:564-568)
update_history(h, full) ==
    IF ~full THEN h
    ELSE LET g == Append(h, "assistant") IN
         IF Len(g) > MAX_HISTORY
         THEN SubSeq(g, Len(g) - MAX_HISTORY + 1, Len(g))
         ELSE g

\* _query_agent starts (server.py:516-524): the user turn is appended and
\* the streaming call to the reasoning backend is opened.
QaOpen(t) ==
    /\ Back(t, "qa_open")
    /\ hub_queue' = Tail(hub_queue)
    /\ conversation_history' = Append(conversation_history, "user")
    /\ tasks' = [tasks EXCEPT ![t] = [Free EXCEPT !.pc = "qa_wait"]]
    /\ UNCHANGED << wake_enabled, sttVars, ttsVars, converse_task,
                    converse_enabled, sideVars, requests >>

TaskDone(say) == say \in {"none", "done"}

\* After the token loop (server.py:546-558): the rest of the buffer is
\* flushed in Speaking, the last synthesis task is awaited, then
\* hub.send_agent_done and hub.send_llm_backend.
QaAfterLoop(t, rec) ==
    IF rec.buf /\ sm_state = "SPEAKING"
    THEN /\ tasks' = [tasks EXCEPT ![t] =
                IF TaskDone(rec.say)
                THEN [rec EXCEPT !.pc = "qa_join_last", !.say = "pending",
                                 !.buf = FALSE]
                ELSE [rec EXCEPT !.pc = "qa_join_rest"]]
         /\ hub_queue' = hub_queue
    ELSE IF TaskDone(rec.say)
    THEN /\ tasks' = [tasks EXCEPT ![t] = [rec EXCEPT !.pc = "qa_done"]]
         /\ hub_queue' = Append(hub_queue, t)
    ELSE /\ tasks' = [tasks EXCEPT ![t] = [rec EXCEPT !.pc = "qa_join_last"]]
         /\ hub_queue' = hub_queue

\* The backend streams a token (server.py:524-530)
QaToken(t) ==
    /\ tasks[t].pc = "qa_wait"
    /\ tasks[t].ntok < MaxTokens
    /\ IF sm_state \notin {"THINKING", "SPEAKING"}
       THEN QaAfterLoop(t, tasks[t])
       ELSE /\ tasks' = [tasks EXCEPT ![t].pc = "qa_chunk", ![t].full = TRUE,
                                      ![t].buf = TRUE,
                                      ![t].ntok = tasks[t].ntok + 1]
            /\ hub_queue' = Append(hub_queue, t)
    /\ UNCHANGED << smVars, wake_enabled, sttVars, ttsVars,
                    conversation_history, converse_task, converse_enabled, sideVars,
                    requests >>

\* The stream of the backend ends (server.py:524, 546)
QaStreamEnd(t) ==
    /\ tasks[t].pc = "qa_wait"
    /\ QaAfterLoop(t, tasks[t])
    /\ UNCHANGED << smVars, wake_enabled, sttVars, ttsVars,
                    conversation_history, converse_task, converse_enabled, sideVars,
                    requests >>

\* The flush decision for the buffer (server.py:538-544); flush: whether
\* _should_flush_tts returns a sentence.
QaFlush(t, rec, flush) ==
    IF ~flush
    THEN [rec EXCEPT !.pc = "qa_wait"]
    ELSE IF TaskDone(rec.say)
    THEN [rec EXCEPT !.pc = "qa_wait", !.buf = FALSE, !.say = "pending"]
    ELSE [rec EXCEPT !.pc = "qa_join_loop", !.buf = FALSE]

\* Back from hub.send_agent_chunk (server.py:530-544): on the first token
\* the transition to Speaking, on a later one the flush decision.
QaChunkSent(t, flush) ==
    /\ tasks[t].pc = "qa_chunk"
    /\ HubTurn(t)
    /\ IF tasks[t].ntok = 1
       THEN /\ flush
            /\ CallTransition(t, tasks[t], "SPEAKING", "qa_flush",
                              tasks, sm_lock, sm_waiters, Tail(hub_queue))
       ELSE /\ tasks' = [tasks EXCEPT ![t] = QaFlush(t, tasks[t], flush)]
            /\ hub_queue' = Tail(hub_queue)
            /\ UNCHANGED smVars
    /\ UNCHANGED << wake_enabled, sttVars, ttsVars, conversation_history,
                    converse_task, converse_enabled, sideVars, requests >>

\* After the transition to Speaking: _reset_bargein and the flush decision
\* for the first token (server.py:535-544)
QaFirstFlush(t, flush) ==
    /\ Back(t, "qa_flush")
    /\ hub_queue' = Tail(hub_queue)
    /\ tasks' = [tasks EXCEPT ![t] = QaFlush(t, tasks[t], flush)]
    /\ UNCHANGED << wake_enabled, sttVars, ttsVars,
                    conversation_history, converse_task, converse_enabled, sideVars,
                    requests >>

\* "await tts_task" returns (server.py:542-544, 547-549, 551-552)
QaJoined(t) ==
    /\ tasks[t].pc \in JoinPcs
    /\ TaskDone(tasks[t].say)
    /\ CASE tasks[t].pc = "qa_join_loop" ->
              /\ tasks' = [tasks EXCEPT ![t].pc = "qa_wait",
                                        ![t].say = "pending"]
              /\ hub_queue' = hub_queue
         [] tasks[t].pc = "qa_join_rest" ->
              /\ tasks' = [tasks EXCEPT ![t].pc = "qa_join_last",
                                        ![t].say = "pending",
                                        ![t].buf = FALSE]
              /\ hub_queue' = hub_queue
         [] OTHER ->
              /\ tasks' = [tasks EXCEPT ![t].pc = "qa_done"]
              /\ hub_queue' = Append(hub_queue, t)
    /\ UNCHANGED << smVars, wake_enabled, sttVars, ttsVars,
                    conversation_history, converse_task, converse_enabled, sideVars,
                    requests >>

\* Back from hub.send_agent_done and hub.send_llm_backend: the history is
\* updated, then conversation mode or Idle (server.py:558-577, 588-590)
QaDone(t) ==
    /\ tasks[t].pc = "qa_done"
    /\ HubTurn(t)
    /\ conversation_history' =
          update_history(conversation_history, tasks[t].full)
    /\ IF converse_enabled /\ tasks[t].full
       THEN /\ wake_enabled' = wake_enabled
            /\ CallTransition(t, Free, "CONVERSING", "cv_enter",
                              tasks, sm_lock, sm_waiters, Tail(hub_queue))
       ELSE /\ wake_enabled' = TRUE
            /\ CallTransition(t, Free, "IDLE", "qa_idle",
                              tasks, sm_lock, sm_waiters, Tail(hub_queue))
    /\ UNCHANGED << sttVars, ttsVars, converse_task, converse_enabled, sideVars,
                    requests >>

\* --------------------------------------------- server.py: _speak_sentence
\* The synthesis task of task t starts (server.py:734-738, tts.py:88-89);
\* clean: _clean_for_tts leaves something to say.
SayBegin(t, clean) ==
    /\ tasks[t].say = "pending"
    /\ IF sm_state = "SPEAKING" /\ clean
       THEN /\ tts_playing' = speak_begin.playing
            /\ tts_cancelled' = speak_begin.cancelled
            /\ tasks' = [tasks EXCEPT ![t].say = "speaking"]
       ELSE /\ tasks' = [tasks EXCEPT ![t] =
                    IF tasks[t].pc = "orphan" THEN Free
                    ELSE [tasks[t] EXCEPT !.say = "done"]]
            /\ UNCHANGED ttsVars
    /\ UNCHANGED << smVars, hub_queue, wake_enabled, sttVars,
                    conversation_history, converse_task, converse_enabled, sideVars,
                    requests >>

\* tts.speak returns in the synthesis task (tts.py:97-113)
SayEnd(t) ==
    /\ tasks[t].say = "speaking"
    /\ tts_playing' = speak_end(tts_cancelled).playing
    /\ tts_cancelled' = speak_end(tts_cancelled).cancelled
    /\ tasks' = [tasks EXCEPT ![t] =
            IF tasks[t].pc = "orphan" THEN Free
            ELSE [tasks[t] EXCEPT !.say = "done"]]
    /\ UNCHANGED << smVars, hub_queue, wake_enabled, sttVars,
                    conversation_history, converse_task, converse_enabled, sideVars,
                    requests >>

\* ------------------------- server.py: _enter_converse_mode, _converse_listen
\* _enter_converse_mode after the transition (server.py:592-596): the
\* task goes on as the new _converse_listen task.
CvEnter(t) ==
    /\ Back(t, "cv_enter")
    /\ hub_queue' = Tail(hub_queue)
    /\ wake_enabled' = FALSE
    /\ converse_task' = t
    /\ tasks' = [tasks EXCEPT ![t] = [Free EXCEPT !.pc = "cv_begin"]]
    /\ UNCHANGED << sttVars, ttsVars, conversation_history,
                    converse_enabled, sideVars, requests >>

\* _converse_listen starts (server.py:599-608)
CvStart(t) ==
    /\ tasks[t].pc = "cv_begin"
    /\ CanStart
    /\ StartUtterance
    /\ tasks' = [tasks EXCEPT ![t].pc = "cv_loop"]
    /\ UNCHANGED << smVars, hub_queue, wake_enabled, ttsVars,
                    conversation_history, converse_task, converse_enabled, sideVars,
                    requests >>

\* The end of _converse_listen without speech (server.py:671-675)
CvIdle(t, H) ==
    /\ wake_enabled' = TRUE
    /\ CallTransition(t, Free, "IDLE", "cv_idle", tasks, sm_lock, sm_waiters, H)

\* One pass of the loop of _converse_listen (server.py:611-648).
\* deadline: _CONVERSE_TIMEOUT has passed since the loop began;
\* silence, maxdur: as in PsItem.
CvItem(t, deadline, silence, maxdur) ==
    /\ tasks[t].pc = "cv_loop"
    /\ HasItem
    /\ result_queue' = Dequeue
    /\ IF sm_state # "CONVERSING"
       THEN /\ CvIdle(t, hub_queue)
            /\ UNCHANGED << stt_active, stt_sentinel >>
       ELSE IF ~stt_speech /\ deadline
       THEN /\ stt_active' = stop_utterance.active
            /\ stt_sentinel' = stop_utterance.sentinel
            /\ CvIdle(t, hub_queue)
       ELSE IF silence \/ (maxdur /\ stt_speech)
       THEN /\ stt_active' = stop_utterance.active
            /\ stt_sentinel' = stop_utterance.sentinel
            /\ tasks' = [tasks EXCEPT ![t].pc = "ps_drain",
                                      ![t].mode = "conv"]
            /\ UNCHANGED << smVars, hub_queue, wake_enabled >>
       ELSE IF maxdur
       THEN /\ stt_active' = stop_utterance.active
            /\ stt_sentinel' = stop_utterance.sentinel
            /\ CvIdle(t, hub_queue)
       ELSE IF NextItem.final /\ NextItem.text # "empty"
       THEN /\ tasks' = [tasks EXCEPT ![t].pc = "cv_fsent"]
            /\ hub_queue' = Append(hub_queue, t)
            /\ UNCHANGED << smVars, wake_enabled, stt_active, stt_sentinel >>
       ELSE IF NextItem.text # "empty"
       THEN /\ tasks' = [tasks EXCEPT ![t].pc = "cv_psent"]
            /\ hub_queue' = Append(hub_queue, t)
            /\ UNCHANGED << smVars, wake_enabled, stt_active, stt_sentinel >>
       ELSE IF NextItem.final
       THEN /\ CvIdle(t, hub_queue)
            /\ UNCHANGED << stt_active, stt_sentinel >>
       ELSE UNCHANGED << smVars, hub_queue, wake_enabled, stt_active,
                         stt_sentinel, tasks >>
    /\ UNCHANGED << stt_speech, stt_workers, ttsVars,
                    conversation_history, converse_task, converse_enabled, sideVars,
                    requests >>

\* The result stream ends under the loop of _converse_listen
CvStreamEnd(t) ==
    /\ tasks[t].pc = "cv_loop"
    /\ StreamEnds
    /\ CvIdle(t, hub_queue)
    /\ UNCHANGED << sttVars, ttsVars, conversation_history, converse_task,
                    converse_enabled, sideVars, requests >>

\* Back from hub.send_stt_final in the loop (server.py:633-637): the loop is
\* left with got_speech set, and the drain starts (server.py:654-663)
CvFinalSent(t) ==
    /\ tasks[t].pc = "cv_fsent"
    /\ HubTurn(t)
    /\ hub_queue' = Tail(hub_queue)
    /\ tasks' = [tasks EXCEPT ![t].pc = "ps_drain", ![t].mode = "conv"]
    /\ UNCHANGED << smVars, wake_enabled, sttVars, ttsVars,
                    conversation_history, converse_task, converse_enabled, sideVars,
                    requests >>

\* Back from hub.send_stt_partial in the loop (server.py:638-648): with
\* speech confirmed the task turns to Listening and goes on in
\* _process_stt_continuation.
CvPartialSent(t) ==
    /\ tasks[t].pc = "cv_psent"
    /\ HubTurn(t)
    /\ IF stt_speech
       THEN CallTransition(t, tasks[t], "LISTENING", "psc_loop",
                           tasks, sm_lock, sm_waiters, Tail(hub_queue))
       ELSE /\ tasks' = [tasks EXCEPT ![t].pc = "cv_loop"]
            /\ hub_queue' = Tail(hub_queue)
            /\ UNCHANGED smVars
    /\ UNCHANGED << wake_enabled, sttVars, ttsVars, conversation_history,
                    converse_task, converse_enabled, sideVars, requests >>

\* _process_stt_continuation starts (server.py:678-685)
CvContinue(t) ==
    /\ Back(t, "psc_loop")
    /\ hub_queue' = Tail(hub_queue)
    /\ tasks' = [tasks EXCEPT ![t] = [Free EXCEPT !.pc = "ps_loop",
                                                  !.mode = "cont"]]
    /\ UNCHANGED << wake_enabled, sttVars, ttsVars,
                    conversation_history, converse_task, converse_enabled, sideVars,
                    requests >>

\* ------------------------------------------------------------------ Next
TaskStep(t) ==
    \/ TrAcquire(t)
    \/ TrReturn(t)
    \/ WakeStartListening(t)
    \/ WakeAck(t)
    \/ AckSpeak(t)
    \/ AckSpoken(t)
    \/ AckDone(t)
    \/ \E timer, silence, maxdur \in BOOLEAN : PsItem(t, timer, silence, maxdur)
    \/ PsStreamEnd(t)
    \/ PsDrainItem(t)
    \/ PsDrainEnd(t)
    \/ PsFinalSent(t)
    \/ QaOpen(t)
    \/ QaToken(t)
    \/ QaStreamEnd(t)
    \/ \E flush \in BOOLEAN : QaChunkSent(t, flush)
    \/ \E flush \in BOOLEAN : QaFirstFlush(t, flush)
    \/ QaJoined(t)
    \/ QaDone(t)
    \/ \E clean \in BOOLEAN : SayBegin(t, clean)
    \/ SayEnd(t)
    \/ CvEnter(t)
    \/ CvStart(t)
    \/ \E deadline, silence, maxdur \in BOOLEAN :
          CvItem(t, deadline, silence, maxdur)
    \/ CvStreamEnd(t)
    \/ CvFinalSent(t)
    \/ CvPartialSent(t)
    \/ CvContinue(t)

WorkerStep(i) ==
    \/ WorkerSentinel(i)
    \/ WorkerInactive(i)
    \/ WorkerFinal(i)
    \/ WorkerPartial(i)

Next ==
    \/ OnWake
    \/ PttStart
    \/ PttStop
    \/ KillSwitch
    \/ \E t \in Slots : TaskStep(t)
    \/ \E i \in 1..MaxWorkers : WorkerStep(i)
    \/ \E speech \in BOOLEAN : FeedAudio(speech)

Spec == Init /\ [][Next]_vars

\* ---------------------------------------------------- one wake, one turn
\* The daemon from start with a single wake event and no other request:
\* the turn it starts, and the follow-up windows of conversation mode.
\* With one coroutine at a time the lock is never waited for (TrAcquire),
\* the wake never finds Speaking or Conversing (WakeStartListening), and a
\* final result is queued only after the loop stopped the window, so the
\* stream never ends under a loop (PsStreamEnd, PsDrainEnd, CvStreamEnd,
\* CvFinalSent): these steps are left out.
NextTurn ==
    \/ requests = <<>> /\ OnWake
    \/ \E t \in Slots :
          \/ TrReturn(t)
          \/ WakeAck(t)
          \/ AckSpeak(t)
          \/ AckSpoken(t)
          \/ AckDone(t)
          \/ \E timer, silence, maxdur \in BOOLEAN :
                PsItem(t, timer, silence, maxdur)
          \/ PsDrainItem(t)
          \/ PsFinalSent(t)
          \/ QaOpen(t)
          \/ QaToken(t)
          \/ QaStreamEnd(t)
          \/ \E flush \in BOOLEAN : QaChunkSent(t, flush)
          \/ \E flush \in BOOLEAN : QaFirstFlush(t, flush)
          \/ QaJoined(t)
          \/ QaDone(t)
          \/ \E clean \in BOOLEAN : SayBegin(t, clean)
          \/ SayEnd(t)
          \/ CvEnter(t)
          \/ CvStart(t)
          \/ \E deadline, silence, maxdur \in BOOLEAN :
                CvItem(t, deadline, silence, maxdur)
          \/ CvPartialSent(t)
          \/ CvContinue(t)
    \/ \E i \in 1..MaxWorkers : WorkerStep(i)
    \/ \E speech \in BOOLEAN : FeedAudio(speech)

SpecTurn == Init /\ [][NextTurn]_vars

\* ------------------------------------------- exceptions inside a turn
\* Where a coroutine of a turn can be handed an exception: by
\* stt.results() under the loop of _process_stt ("listen"), of
\* _process_stt_continuation ("continue"), of _converse_listen
\* ("converse") or under a drain loop ("drain"), by
\* stream_agent_response ("agent"), and by the synthesis backend under
\* tts.speak ("speak").
FaultPlaces == {"listen", "continue", "converse", "drain", "agent", "speak"}

\* An exception is raised at the await task t is suspended in, and the
\* handler around it runs up to its next suspension:
\*   _process_stt, first loop (server.py:464-466)   hub.send_error
\*   _process_stt_continuation (server.py:706-709)  logged; the drain is next
\*   _converse_listen (server.py:650-675)           logged; got_speech is
\*                                                  False, back to Idle
\*   a drain loop (server.py:480-481, 662-663, 716-717)  passed over
\*   _query_agent (server.py:554-556)               hub.send_error
\*   TTSEngine._speak_one (tts.py:135-137, 108-110) logged; speak returns
\*                                                  False
\* The backend's stream is taken to fail between sentences, when no
\* synthesis task of the reply is unfinished.
Raise(t, place) ==
    /\ fault = "none"
    /\ fault' = place
    /\ CASE place = "listen" ->
              /\ tasks[t].pc = "ps_loop" /\ tasks[t].mode = "wake"
              /\ tasks' = [tasks EXCEPT ![t].pc = "er_sent",
                                        ![t].cont = "ks_call"]
              /\ hub_queue' = Append(hub_queue, t)
              /\ UNCHANGED << smVars, wake_enabled, ttsVars >>
         [] place = "continue" ->
              /\ tasks[t].pc = "ps_loop" /\ tasks[t].mode = "cont"
              /\ tasks' = [tasks EXCEPT ![t].pc = "ps_drain"]
              /\ UNCHANGED << smVars, hub_queue, wake_enabled, ttsVars >>
         [] place = "converse" ->
              /\ tasks[t].pc = "cv_loop"
              /\ CvIdle(t, hub_queue)
              /\ UNCHANGED ttsVars
         [] place = "drain" ->
              /\ tasks[t].pc = "ps_drain"
              /\ PsDecide(t, tasks[t], hub_queue)
              /\ UNCHANGED ttsVars
         [] place = "agent" ->
              /\ tasks[t].pc = "qa_wait" /\ TaskDone(tasks[t].say)
              /\ tasks' = [tasks EXCEPT ![t].pc = "er_sent",
                                        ![t].cont = "qa_done"]
              /\ hub_queue' = Append(hub_queue, t)
              /\ UNCHANGED << smVars, wake_enabled, ttsVars >>
         [] OTHER ->
              /\ tasks[t].say = "speaking"
              /\ tts_playing' = speak_end(tts_cancelled).playing
              /\ tts_cancelled' = speak_end(tts_cancelled).cancelled
              /\ tasks' = [tasks EXCEPT ![t] =
                      IF tasks[t].pc = "orphan" THEN Free
                      ELSE [tasks[t] EXCEPT !.say = "done"]]
              /\ UNCHANGED << smVars, hub_queue, wake_enabled >>
    /\ UNCHANGED << sttVars, conversation_history, converse_task,
                    converse_enabled, requests, audioVars, bargeVars,
                    filterVars, notifyVars, unitVars >>

\* Back from hub.send_error.  _process_stt goes on into _kill_switch,
\* which runs in the same coroutine up to its transition
\* (server.py:467, 836-849); _query_agent goes on to hub.send_agent_done
\* (server.py:558).
ErrSent(t) ==
    LET c == converse_task IN
    /\ tasks[t].pc = "er_sent"
    /\ HubTurn(t)
    /\ IF tasks[t].cont = "ks_call"
       THEN /\ converse_task' = 0
            /\ tts_playing' = tts_cancel.playing
            /\ tts_cancelled' = tts_cancel.cancelled
            /\ StopUtterance
            /\ wake_enabled' = TRUE
            /\ conversation_history' = <<>>
            /\ CallTransition(t, Free, "IDLE", "ks_done", CancelT(c),
                              CancelL(c), CancelW(c), Tail(CancelH(c)))
       ELSE /\ tasks' = [tasks EXCEPT ![t].pc = "qa_done"]
            /\ hub_queue' = Append(Tail(hub_queue), t)
            /\ UNCHANGED << smVars, wake_enabled, sttVars, ttsVars,
                            conversation_history, converse_task >>
    /\ UNCHANGED << converse_enabled, requests, sideVars >>

\* One wake and its turn, with an exception raised at any of the places.
NextFail ==
    \/ NextTurn
    \/ \E t \in Slots : \E place \in FaultPlaces : Raise(t, place)
    \/ \E t \in Slots : ErrSent(t)

SpecFail == Init /\ [][NextFail]_vars

\* ------------------------------------------------ the daemon left alone
\* What the scheduling promises: a coroutine that can run is run by the
\* event loop; a call to a collaborator returns (tts.speak, the backend's
\* stream, the hub); a transcription thread that can go on does; and the
\* timers of a window run out: MAX_LISTEN_SECONDS, the follow-up deadline
\* and the silence timers of stt.py:272-292 hold on some pass of the loop
\* whenever the loop keeps passing (server.py:441-453, 616-631).
LiveFair ==
    /\ \A t \in Slots :
          /\ WF_vars(\/ TrAcquire(t) \/ TrReturn(t)
                     \/ WakeStartListening(t) \/ WakeAck(t)
                     \/ AckSpeak(t) \/ AckSpoken(t) \/ AckDone(t)
                     \/ PsStreamEnd(t) \/ PsDrainItem(t) \/ PsDrainEnd(t)
                     \/ PsFinalSent(t) \/ QaOpen(t) \/ QaStreamEnd(t)
                     \/ (\E flush \in BOOLEAN : QaChunkSent(t, flush))
                     \/ (\E flush \in BOOLEAN : QaFirstFlush(t, flush))
                     \/ QaJoined(t) \/ QaDone(t) \/ CvEnter(t)
                     \/ CvStart(t) \/ CvStreamEnd(t) \/ CvFinalSent(t)
                     \/ CvPartialSent(t) \/ CvContinue(t) \/ ErrSent(t))
          /\ SF_vars(PsItem(t, TRUE, TRUE, TRUE))
          /\ SF_vars(CvItem(t, TRUE, TRUE, TRUE))
          /\ WF_vars(\E clean \in BOOLEAN : SayBegin(t, clean))
          /\ WF_vars(SayEnd(t))
    /\ \A i \in 1..MaxWorkers :
          /\ WF_vars(WorkerSentinel(i))
          /\ WF_vars(WorkerInactive(i))
          /\ WF_vars(WorkerFinal(i))

\* One wake, its turn and the exceptions, under that scheduling.
SpecLive == Init /\ [][NextFail]_vars /\ LiveFair

\* -------------------------------------------------- a run from Speaking
\* The daemon as a reply begins to be spoken: one turn (wake,
\* acknowledgement, listening window, Thinking) is behind, the first token
\* has arrived and task 1, in _query_agent, has just turned the machine to
\* Speaking (server.py:530-534).  The requests counted are those made
\* from here on.
InitSpeaking ==
    /\ sm_state = "SPEAKING"
    /\ sm_lock = 1
    /\ sm_waiters = <<>>
    /\ hub_queue = << 1 >>
    /\ wake_enabled = FALSE
    /\ stt_active = FALSE
    /\ stt_speech \in BOOLEAN
    /\ stt_sentinel = FALSE
    /\ stt_workers = << [st |-> "dead"] >>
    /\ result_queue = <<>>
    /\ tts_playing = FALSE
    /\ tts_cancelled = FALSE
    /\ conversation_history = << "user" >>
    /\ converse_task = 0
    /\ converse_enabled = FALSE
    /\ tasks = [t \in Slots |->
                   IF t = 1
                   THEN [Free EXCEPT !.pc = "tr_sent", !.tgt = "SPEAKING",
                                     !.cont = "qa_flush", !.full = TRUE,
                                     !.buf = TRUE, !.ntok = 1]
                   ELSE Free]
    /\ requests = <<>>
    /\ now = 0
    /\ tts_started_at = NoTime
    /\ tts_stopped_at = NoTime
    /\ tts_echo_suppress_until = 0
    /\ stt_fed_at = NoTime
    /\ UnitRest
    /\ FilterRest
    /\ PartsRest("none")

\* With CONVERSE_ENABLED off no coroutine enters _enter_converse_mode or
\* _converse_listen, and the run from Speaking takes at most MaxBargeIn
\* wake requests; with one listening coroutine at a time the final result
\* always reaches the first loop before the stream can end.
TaskStepSpeaking(t) ==
    \/ TrAcquire(t)
    \/ TrReturn(t)
    \/ WakeStartListening(t)
    \/ WakeAck(t)
    \/ AckSpeak(t)
    \/ AckSpoken(t)
    \/ AckDone(t)
    \/ \E timer, silence, maxdur \in BOOLEAN : PsItem(t, timer, silence, maxdur)
    \/ PsDrainItem(t)
    \/ PsDrainEnd(t)
    \/ PsFinalSent(t)
    \/ QaOpen(t)
    \/ QaToken(t)
    \/ QaStreamEnd(t)
    \/ \E flush \in BOOLEAN : QaChunkSent(t, flush)
    \/ \E flush \in BOOLEAN : QaFirstFlush(t, flush)
    \/ QaJoined(t)
    \/ QaDone(t)
    \/ \E clean \in BOOLEAN : SayBegin(t, clean)
    \/ SayEnd(t)

NextSpeaking ==
    \/ nWake < MaxBargeIn /\ OnWake
    \/ nWake < MaxBargeIn /\ PttStart
    \/ PttStop
    \/ KillSwitch
    \/ \E t \in Slots : TaskStepSpeaking(t)
    \/ \E i \in 1..MaxWorkers : WorkerStep(i)
    \/ \E speech \in BOOLEAN : FeedAudio(speech)

SpecSpeaking == InitSpeaking /\ [][NextSpeaking]_vars

\* ------------------------------------------------------- the audio path
\* The capture thread against the synthesis player, with the clock: the
\* control variables stay as the daemon starts, and tts.speak / tts.cancel
\* are whatever coroutine calls them.  (Spec and SpecSpeaking leave the
\* clock alone.)
ctlVars == << smVars, hub_queue, wake_enabled, sttVars, conversation_history,
              converse_task, converse_enabled, tasks, requests, bargeVars,
              filterVars, notifyVars, faultVars, unitVars >>

\* _audio_frame_handler on a block captured at time t (server.py:899-912).
audio_frame_handler(t) ==
    IF tts_playing
    THEN /\ tts_echo_suppress_until' = t + TTS_ECHO_GUARD_S
         /\ UNCHANGED stt_fed_at
    ELSE IF t < tts_echo_suppress_until
    THEN UNCHANGED << tts_echo_suppress_until, stt_fed_at >>
    ELSE /\ stt_fed_at' = t
         /\ UNCHANGED tts_echo_suppress_until

\* The next tick is the end of a block (audio_capture.py:121-133).
BlockEnds == (now + 1) % BLOCK_TICKS = 0

\* A tick passes within a block.
Tick ==
    /\ now < MaxTime
    /\ ~BlockEnds
    /\ now' = now + 1
    /\ UNCHANGED << ctlVars, ttsVars, tts_started_at, tts_stopped_at,
                    tts_echo_suppress_until, stt_fed_at >>

\* A tick passes and the capture thread delivers the block to the handler.
AudioFrame ==
    /\ now < MaxTime
    /\ BlockEnds
    /\ now' = now + 1
    /\ audio_frame_handler(now + 1)
    /\ UNCHANGED << ctlVars, ttsVars, tts_started_at, tts_stopped_at >>

\* TTSEngine.speak begins (tts.py:88-89).
PlaybackStart ==
    /\ ~tts_playing
    /\ tts_playing' = speak_begin.playing
    /\ tts_cancelled' = speak_begin.cancelled
    /\ tts_started_at' = now
    /\ UNCHANGED << ctlVars, now, tts_stopped_at, tts_echo_suppress_until,
                    stt_fed_at >>

\* Playback stops: speak completes (tts.py:112-113), or cancel is called
\* (tts.py:72-81).
PlaybackStop(cancel) ==
    /\ tts_playing
    /\ now >= tts_started_at + MinPlayTicks
    /\ tts_playing' = IF cancel THEN tts_cancel.playing
                                ELSE speak_end(tts_cancelled).playing
    /\ tts_cancelled' = IF cancel THEN tts_cancel.cancelled
                                  ELSE speak_end(tts_cancelled).cancelled
    /\ tts_stopped_at' = now
    /\ UNCHANGED << ctlVars, now, tts_started_at, tts_echo_suppress_until,
                    stt_fed_at >>

NextAudio ==
    \/ Tick
    \/ AudioFrame
    \/ PlaybackStart
    \/ \E cancel \in BOOLEAN : PlaybackStop(cancel)

SpecAudio == Init /\ [][NextAudio]_vars

\* ------------------------------------ server.py: speech-based barge-in
\* _check_bargein on one frame (server.py:773-833); high: the frame's RMS
\* is above the threshold.  fire: _on_wake is scheduled; counted: the frame
\* reached the energy test.
check_bargein(high) ==
    LET cur == [high_frames |-> bargein_high_frames,
                triggered |-> bargein_triggered,
                tts_was_playing |-> bargein_tts_was_playing,
                guarding |-> bargein_guarding,
                fire |-> FALSE, counted |-> FALSE]
        n == IF high THEN bargein_high_frames + 1
                     ELSE IF bargein_high_frames - 1 > 0
                          THEN bargein_high_frames - 1 ELSE 0
    IN
    IF bargein_triggered THEN cur
    ELSE IF bargein_cooling THEN [cur EXCEPT !.high_frames = 0]
    ELSE IF tts_playing
    THEN [cur EXCEPT !.tts_was_playing = TRUE, !.high_frames = 0]
    ELSE IF bargein_tts_was_playing \/ bargein_guarding
    THEN [cur EXCEPT !.tts_was_playing = FALSE, !.guarding = TRUE,
                     !.high_frames = 0]
    ELSE IF n >= BARGEIN_FRAMES_NEEDED
    THEN [cur EXCEPT !.triggered = TRUE, !.high_frames = 0,
                     !.fire = TRUE, !.counted = TRUE]
    ELSE [cur EXCEPT !.high_frames = n, !.counted = TRUE]

\* What the tracker's steps leave alone.
bargeCtl == << sm_lock, sm_waiters, hub_queue, wake_enabled, sttVars,
               tts_cancelled, conversation_history, converse_task,
               converse_enabled, tasks, requests, audioVars,
               filterVars, notifyVars, faultVars, unitVars >>

\* The frame handler calls _check_bargein in Speaking (server.py:915-916).
CheckBargein(high) ==
    LET r == check_bargein(high) IN
    /\ sm_state = "SPEAKING"
    /\ bargein_high_frames' = r.high_frames
    /\ bargein_triggered' = r.triggered
    /\ bargein_tts_was_playing' = r.tts_was_playing
    /\ bargein_guarding' = r.guarding
    /\ bargein_run' = IF r.counted /\ high
                      THEN (IF bargein_run < BARGEIN_FRAMES_NEEDED
                            THEN bargein_run + 1 ELSE bargein_run)
                      ELSE 0
    /\ bargein_fires' = IF r.fire /\ bargein_fires < MaxFires
                        THEN bargein_fires + 1 ELSE bargein_fires
    /\ UNCHANGED << bargeCtl, sm_state, tts_playing, bargein_cooling,
                    bargein_reset_due, bargein_echo >>

\* A timer the tracker reads runs out: the cooldown after
\* _bargein_speaking_since (server.py:794) or the guard after
\* _bargein_tts_stopped_at (server.py:811-814); or the same guard counted
\* from the instant playback stopped ("echo").  _bargein_tts_stopped_at is
\* taken at a frame after that instant, so the tracker's guard runs out
\* after the one counted from the stop it has seen.
BargeTimer(timer) ==
    /\ CASE timer = "cooldown" -> bargein_cooling
         [] timer = "guard" -> /\ bargein_guarding
                               /\ ~bargein_echo \/ bargein_tts_was_playing
         [] OTHER -> bargein_echo
    /\ bargein_cooling' = IF timer = "cooldown" THEN FALSE
                                                ELSE bargein_cooling
    /\ bargein_guarding' = IF timer = "guard" THEN FALSE
                                              ELSE bargein_guarding
    /\ bargein_echo' = IF timer = "echo" THEN FALSE ELSE bargein_echo
    /\ UNCHANGED << bargeCtl, sm_state, tts_playing, bargein_high_frames,
                    bargein_triggered, bargein_tts_was_playing,
                    bargein_reset_due, bargein_run, bargein_fires >>

\* A turn reaches the backend query (server.py:508).
BargeTurn ==
    /\ sm_state \in {"IDLE", "LISTENING"}
    /\ ~bargein_reset_due
    /\ sm_state' = "THINKING"
    /\ UNCHANGED << bargeCtl, tts_playing, bargeVars >>

\* _query_agent's first token: Speaking is entered, _reset_bargein is still
\* to be called (server.py:532-534).  A Speaking session begins.
BargeFirstChunk ==
    /\ sm_state = "THINKING"
    /\ sm_state' = "SPEAKING"
    /\ bargein_reset_due' = TRUE
    /\ bargein_run' = 0
    /\ bargein_fires' = 0
    /\ bargein_echo' = FALSE
    /\ UNCHANGED << bargeCtl, tts_playing, bargein_high_frames,
                    bargein_triggered, bargein_tts_was_playing,
                    bargein_cooling, bargein_guarding >>

\* _query_agent calls _reset_bargein (server.py:535, 762-770): the
\* cooldown starts now.
ResetBargein ==
    /\ bargein_reset_due
    /\ bargein_reset_due' = FALSE
    /\ bargein_high_frames' = 0
    /\ bargein_cooling' = TRUE
    /\ bargein_triggered' = FALSE
    /\ bargein_tts_was_playing' = FALSE
    /\ bargein_guarding' = FALSE
    /\ UNCHANGED << bargeCtl, sm_state, tts_playing, bargein_run,
                    bargein_fires, bargein_echo >>

\* A sentence of the reply starts or stops playing (server.py:545,
\* tts.py:88-113); the guard counted from the stop begins at the stop.
\* A sentence plays for longer than the period of the captured frames, so
\* by its end a frame has found it playing (server.py:801-804) or has
\* returned earlier (server.py:790-796).
BargeSentence ==
    /\ sm_state = "SPEAKING"
    /\ ~bargein_reset_due
    /\ tts_playing => \/ bargein_tts_was_playing
                      \/ bargein_cooling
                      \/ bargein_triggered
    /\ tts_playing' = ~tts_playing
    /\ bargein_echo' = tts_playing
    /\ UNCHANGED << bargeCtl, sm_state, bargein_high_frames,
                    bargein_triggered, bargein_tts_was_playing,
                    bargein_cooling, bargein_guarding, bargein_reset_due,
                    bargein_run, bargein_fires >>

\* Speaking ends: the reply is over (server.py:569-577, Idle), or _on_wake
\* runs, scheduled by the tracker or by another source (server.py:376-382,
\* Listening, playback cancelled).
BargeLeaves(new) ==
    /\ sm_state = "SPEAKING"
    /\ ~bargein_reset_due
    /\ new = "IDLE" => ~tts_playing
    /\ sm_state' = new
    /\ tts_playing' = FALSE
    /\ bargein_echo' = FALSE
    /\ UNCHANGED << bargeCtl, bargein_high_frames, bargein_triggered,
                    bargein_tts_was_playing, bargein_cooling,
                    bargein_guarding, bargein_reset_due, bargein_run,
                    bargein_fires >>

NextBargeIn ==
    \/ \E high \in BOOLEAN : CheckBargein(high)
    \/ \E timer \in {"cooldown", "guard", "echo"} : BargeTimer(timer)
    \/ BargeTurn
    \/ BargeFirstChunk
    \/ ResetBargein
    \/ BargeSentence
    \/ \E new \in {"IDLE", "LISTENING"} : BargeLeaves(new)

SpecBargeIn == Init /\ [][NextBargeIn]_vars

\* ------------------------------------ stt.py, server.py: repeated text
\* The words a transcript is made of, and the transcripts considered.
Words == {"a", "b"}
Texts == UNION { [1..n -> Words] : n \in 0..MaxWords }

\* "(no speech detected)" as str.split() cuts it (stt.py:443).
NO_SPEECH == << "(no", "speech", "detected)" >>

\* The repetition test of stt.py:430-437 (least = 6) and of
\* server.py:487-492 (least = 4): the first len // 2 words against the
\* next len // 2 words.
is_repetitive(words, least) ==
    LET half == Len(words) \div 2 IN
    /\ Len(words) >= least
    /\ SubSeq(words, 1, half) = SubSeq(words, half + 1, 2 * half)

\* The final text the transcription thread puts (stt.py:427-445).
transcribe_final(words) ==
    LET text == IF words # <<>> /\ is_repetitive(words, 6) THEN <<>>
                                                            ELSE words
    IN IF text = <<>> THEN NO_SPEECH ELSE text

\* What the consumer of the window makes of the final text: _process_stt
\* (server.py:486-497), _process_stt_continuation (server.py:719-720),
\* _converse_listen (server.py:654-665, no filter).
consume_final(mode, speech, text) ==
    CASE mode = "wake" ->
            IF ~speech /\ text # <<>> /\ is_repetitive(text, 4) THEN <<>>
                                                                 ELSE text
      [] mode = "cont" -> IF ~speech /\ text # <<>> THEN <<>> ELSE text
      [] OTHER -> text

\* A window ends with Whisper's words at hand, for any of the consumers.
InitFilter ==
    /\ CtlRest
    /\ PartsRest("none")
    /\ heard_words \in Texts
    /\ heard_speech \in BOOLEAN
    /\ window_mode \in {"wake", "cont", "conv"}
    /\ filter_pc = "worker"
    /\ final_text = <<>>

\* The transcription thread filters and puts the final text.
WorkerFilter ==
    /\ filter_pc = "worker"
    /\ final_text' = transcribe_final(heard_words)
    /\ filter_pc' = "server"
    /\ UNCHANGED << smVars, hub_queue, wake_enabled, sttVars, ttsVars,
                    conversation_history, converse_task, converse_enabled,
                    tasks, requests, audioVars, bargeVars, notifyVars,
                    faultVars, unitVars, heard_words, heard_speech, window_mode >>

\* The consumer filters the final text it was handed.
ServerFilter ==
    /\ filter_pc = "server"
    /\ final_text' = consume_final(window_mode, heard_speech, final_text)
    /\ filter_pc' = "done"
    /\ UNCHANGED << smVars, hub_queue, wake_enabled, sttVars, ttsVars,
                    conversation_history, converse_task, converse_enabled,
                    tasks, requests, audioVars, bargeVars, notifyVars,
                    faultVars, unitVars, heard_words, heard_speech, window_mode >>

NextFilter == WorkerFilter \/ ServerFilter

SpecFilter == InitFilter /\ [][NextFilter]_vars

\* -------------------------------------- state.py: StateMachine, alone
\* What a listener does when it is awaited.
ListenerKind == {"returns", "raises"}

\* A listener's exception ends the loop and reaches the caller.
listener_uncaught(kind) == IF kind = "raises" THEN "propagate" ELSE "next"

\* After "await cb(new_state)" (state.py:45-48): an Exception is caught
\* and logged, and the loop goes on.
after_listener(kind) == "next"

\* StateMachine.on_change (state.py:34-35), called before the machine is
\* used (server.py:924).
SmRegister(kind) ==
    /\ sm_made = 0
    /\ Len(sm_listeners) < MaxListeners
    /\ sm_listeners' = Append(sm_listeners, kind)
    /\ UNCHANGED << smVars, hub_queue, wake_enabled, sttVars, ttsVars,
                    conversation_history, converse_task, converse_enabled,
                    tasks, requests, audioVars, bargeVars, filterVars, faultVars, unitVars,
                    sm_iter, sm_calls, sm_changes, sm_made >>

\* Task t returns from transition: "async with" releases the lock.
SmReturn(t, pc) ==
    /\ tasks' = [tasks EXCEPT ![t] = [Free EXCEPT !.pc = pc]]
    /\ sm_lock' = 0
    /\ sm_iter' = [sm_iter EXCEPT ![t] = 0]

\* Task t holds the lock and runs transition(new) up to its first await
\* (state.py:39-46).
SmBody(t, new) ==
    LET r == transition(sm_state, new) IN
    /\ sm_state' = r.state
    /\ IF r.invoked
       THEN /\ sm_changes' = Append(sm_changes, r.state)
            /\ IF sm_listeners = <<>>
               THEN SmReturn(t, "free")
               ELSE /\ tasks' = [tasks EXCEPT ![t] =
                          [Free EXCEPT !.pc = "sm_notify", !.tgt = new]]
                    /\ sm_lock' = t
                    /\ sm_iter' = [sm_iter EXCEPT ![t] = 1]
       ELSE /\ sm_changes' = sm_changes
            /\ SmReturn(t, "free")

\* A coroutine calls transition(new) (state.py:37-38).
SmCall(new) ==
    /\ sm_made < MaxCalls
    /\ FreeSlots # {}
    /\ sm_made' = sm_made + 1
    /\ IF LockFree(sm_lock, sm_waiters)
       THEN /\ SmBody(NewSlot, new)
            /\ UNCHANGED sm_waiters
       ELSE /\ tasks' = [tasks EXCEPT ![NewSlot] =
                  [Free EXCEPT !.pc = "sm_wait", !.tgt = new]]
            /\ sm_waiters' = Append(sm_waiters, NewSlot)
            /\ UNCHANGED << sm_state, sm_lock, sm_iter, sm_changes >>
    /\ UNCHANGED << hub_queue, wake_enabled, sttVars, ttsVars,
                    conversation_history, converse_task, converse_enabled,
                    requests, audioVars, bargeVars, filterVars, faultVars, unitVars,
                    sm_listeners, sm_calls >>

\* The first waiter gets the released lock (asyncio.Lock is FIFO).
SmAcquire(t) ==
    /\ tasks[t].pc = "sm_wait"
    /\ sm_lock = 0
    /\ sm_waiters # <<>> /\ Head(sm_waiters) = t
    /\ sm_waiters' = Tail(sm_waiters)
    /\ SmBody(t, tasks[t].tgt)
    /\ UNCHANGED << hub_queue, wake_enabled, sttVars, ttsVars,
                    conversation_history, converse_task, converse_enabled,
                    requests, audioVars, bargeVars, filterVars, faultVars, unitVars,
                    sm_listeners, sm_calls, sm_made >>

\* The listener the loop of task t is at is awaited with the new state and
\* returns or raises (state.py:44-48).
SmNotify(t) ==
    LET k == sm_iter[t] IN
    /\ tasks[t].pc = "sm_notify"
    /\ sm_calls' = Append(sm_calls, << k, tasks[t].tgt >>)
    /\ IF after_listener(sm_listeners[k]) # "next"
       THEN SmReturn(t, "sm_raised")
       ELSE IF k = Len(sm_listeners)
       THEN SmReturn(t, "free")
       ELSE /\ sm_iter' = [sm_iter EXCEPT ![t] = k + 1]
            /\ UNCHANGED << tasks, sm_lock >>
    /\ UNCHANGED << sm_state, sm_waiters, hub_queue, wake_enabled, sttVars,
                    ttsVars, conversation_history, converse_task,
                    converse_enabled, requests, audioVars, bargeVars,
                    filterVars, faultVars, unitVars, sm_listeners, sm_changes,
                    sm_made >>

NextSM ==
    \/ \E kind \in ListenerKind : SmRegister(kind)
    \/ \E new \in State : SmCall(new)
    \/ \E t \in Slots : SmAcquire(t)
    \/ \E t \in Slots : SmNotify(t)

SpecSM == Init /\ [][NextSM]_vars

\* ----------------- agent_client.py, server.py: the backend's messages
\* The texts of the turns told apart.
MaxTexts == 3
AgentMessage == [role : {"user", "assistant"}, content : 1..MaxTexts]
\* The stored history as a turn can find it: at most MAX_HISTORY entries
\* after the trimming of server.py:567-568 (or none after a kill switch).
Histories ==
    UNION { [1..n -> AgentMessage] : n \in 0..MAX_HISTORY }

\* stream_agent_response up to its request (agent_client.py:27-34):
\* "history or []" is the caller's list unless that is empty, and the user
\* turn is appended to it in place.  messages: what the payload carries;
\* history: the caller's list after the call.
stream_agent_response(user_text, history) ==
    LET m == Append(history, [role |-> "user", content |-> user_text]) IN
    [messages |-> m,
     history |-> IF history = <<>> THEN history ELSE m]

\* _query_agent up to the opening of the stream (server.py:513-524): the
\* user turn is appended to the stored history and a copy of the stored
\* history is handed to stream_agent_response.
QueryAgent(text) ==
    LET stored == Append(agent_stored, [role |-> "user", content |-> text])
        r == stream_agent_response(text, stored)
    IN
    /\ agent_messages = <<>>
    /\ agent_stored' = stored
    /\ agent_messages' = r.messages
    /\ UNCHANGED << restVars, wake_enabled, ttsVars, speakVars, spotVars,
                    flushVars, hubVars >>

\* A turn reaches the backend with any stored history and any text.
InitAgent ==
    /\ CtlRest /\ FilterRest /\ PartsRest("agent")
    /\ agent_stored \in Histories /\ agent_messages = <<>>

SpecAgent == InitAgent /\ [][\E text \in 1..MaxTexts : QueryAgent(text)]_vars

\* --------------------------------------------- tts.py: TTSEngine, alone
InFlight(call) == call.st \in {"synth", "play", "dead", "over"}
Returned(call, ok) == [call EXCEPT !.st = "ret", !.ok = ok]

\* One step of the engine for call c.
\*   "speak"   speak begins (tts.py:88-89) and reaches communicate.save
\*             (tts.py:159-160)
\*   "saved"   the synthesis is back: the call returns False if the flag
\*             is set, else starts its player, which becomes
\*             TTSEngine._process (tts.py:162-164, 183-194)
\*   "ends"    the player of call c plays its file to the end
\*   "poll"    one pass of the loop of _play_audio_file, which looks at
\*             TTSEngine._process, whosever player that is
\*             (tts.py:197-208), and the return of speak after it
\*             (tts.py:106-113)
\*   "cancel"  TTSEngine.cancel (tts.py:72-81); c is not used
TtsStep(c, step) ==
    LET call == tts_calls[c]
        proc == tts_calls[tts_proc]
    IN
    /\ CASE step = "speak" ->
              /\ call.st = "idle"
              /\ \A d \in 1..(c - 1) : tts_calls[d].st # "idle"
              /\ tts_cancelled' = speak_begin.cancelled
              /\ tts_playing' = speak_begin.playing
              /\ tts_calls' = [tts_calls EXCEPT ![c].st = "synth"]
              /\ UNCHANGED tts_proc
         [] step = "saved" ->
              /\ call.st = "synth"
              /\ IF tts_cancelled
                 THEN /\ tts_calls' =
                            [tts_calls EXCEPT ![c] = Returned(call, FALSE)]
                      /\ tts_playing' = FALSE
                      /\ UNCHANGED tts_proc
                 ELSE /\ tts_calls' = [tts_calls EXCEPT ![c].st = "play"]
                      /\ tts_proc' = c
                      /\ UNCHANGED tts_playing
              /\ UNCHANGED tts_cancelled
         [] step = "ends" ->
              /\ call.st = "play"
              /\ tts_calls' = [tts_calls EXCEPT ![c].st = "over"]
              /\ UNCHANGED << ttsVars, tts_proc >>
         [] step = "poll" ->
              /\ call.st \in {"play", "dead", "over"}
              /\ IF proc.st # "play"
                 THEN /\ tts_calls' = [tts_calls EXCEPT ![c] =
                            Returned(call, proc.st \in {"over", "ret"}
                                           /\ ~tts_cancelled)]
                      /\ tts_playing' = FALSE
                 ELSE IF tts_cancelled
                 THEN /\ tts_calls' = [d \in 1..MaxSpeaks |->
                            IF d = c THEN Returned(call, FALSE)
                            ELSE IF d = tts_proc
                            THEN [tts_calls[d] EXCEPT !.st = "dead"]
                            ELSE tts_calls[d]]
                      /\ tts_playing' = FALSE
                 ELSE UNCHANGED << tts_calls, tts_playing >>
              /\ UNCHANGED << tts_cancelled, tts_proc >>
         [] OTHER ->
              /\ c = 1
              /\ \E d \in 1..MaxSpeaks : InFlight(tts_calls[d])
              /\ tts_cancelled' = tts_cancel.cancelled
              /\ tts_playing' = tts_cancel.playing
              /\ tts_calls' = [d \in 1..MaxSpeaks |->
                    IF ~InFlight(tts_calls[d]) THEN tts_calls[d]
                    ELSE [tts_calls[d] EXCEPT
                            !.hit = TRUE,
                            !.st = IF d = tts_proc /\ @ = "play"
                                   THEN "dead" ELSE @]]
              /\ UNCHANGED tts_proc
    /\ UNCHANGED << restVars, wake_enabled, agentVars, spotVars, flushVars,
                    hubVars >>

\* The engine with up to MaxSpeaks calls of speak and any cancels.
SpecSpeak ==
    /\ Init
    /\ [][\E c \in 1..MaxSpeaks :
            \E step \in {"speak", "saved", "ends", "poll", "cancel"} :
               TtsStep(c, step)]_vars

\* ------------------------------------------ wake.py: the frame queue
\* The capacity of WakeDetector._audio_queue (wake.py:58), taken small.
WAKE_QUEUE_MAX == 3
\* Frames captured in a run of the spotter alone.
MaxFrames == 5

\* A feed that waits for room instead of dropping the frame.
feed_waits(q, enabled, frame) ==
    IF enabled THEN Append(q, frame) ELSE q

\* WakeDetector.feed_audio (wake.py:102-109): the queue after the frame
\* was offered.
wake_feed_audio(q, enabled, frame) ==
    IF ~enabled THEN q
    ELSE IF Len(q) >= WAKE_QUEUE_MAX THEN q
    ELSE Append(q, frame)

\* One step around the queue.
\*   "feed"    the capture thread offers the next frame (wake.py:102-109,
\*             server.py:904-905)
\*   "take"    the spotter's thread takes a frame (wake.py:163-167)
\*   "switch"  the orchestrator arms or disarms the spotter
\*             (wake.py:82-88)
SpotStep(step) ==
    /\ CASE step = "feed" ->
              /\ spot_fed < MaxFrames
              /\ spot_fed' = spot_fed + 1
              /\ spot_queue' =
                    wake_feed_audio(spot_queue, wake_enabled, spot_fed + 1)
              /\ UNCHANGED << spot_taken, wake_enabled >>
         [] step = "take" ->
              /\ spot_queue # <<>>
              /\ spot_taken' = Append(spot_taken, Head(spot_queue))
              /\ spot_queue' = Tail(spot_queue)
              /\ UNCHANGED << spot_fed, wake_enabled >>
         [] OTHER ->
              /\ wake_enabled' = ~wake_enabled
              /\ UNCHANGED spotVars
    /\ UNCHANGED << restVars, ttsVars, agentVars, speakVars, flushVars,
                    hubVars >>

\* The spotter's queue between the capture thread and the spotter's thread.
SpecSpot ==
    /\ Init
    /\ [][\E step \in {"feed", "take", "switch"} : SpotStep(step)]_vars

\* ------------------------------------- server.py: _should_flush_tts
\* The minimum content (server.py:751) and the maximum length
\* (server.py:757) of the buffer, taken small.
FLUSH_MIN == 3
FLUSH_MAX == 5
\* The longest buffer considered.
MaxBuf == 6
Buffers == UNION { [1..n -> Chars] : n \in 0..MaxBuf }

White == {" ", "nl"}
\* str.strip()
RECURSIVE Strip(_)
Strip(b) ==
    IF b = <<>> THEN b
    ELSE IF Head(b) \in White THEN Strip(Tail(b))
    ELSE IF b[Len(b)] \in White THEN Strip(SubSeq(b, 1, Len(b) - 1))
    ELSE b

\* re.match(r'^\d+[.)\s]*$', stripped) (server.py:747)
BareMarker(b) ==
    \E k \in 1..Len(b) :
       /\ \A i \in 1..k : b[i] = "1"
       /\ \A i \in (k + 1)..Len(b) : b[i] \in {".", " ", "nl"}

\* A sentence-terminal character is in the buffer (server.py:754-755).
HasTerminal(b) == \E i \in 1..Len(b) : b[i] \in {".", "nl"}

\* A decision that flushes whatever is longer than the maximum.
flush_if_long(buffer) ==
    IF Len(buffer) > FLUSH_MAX THEN "flush"
    ELSE IF BareMarker(Strip(buffer)) THEN "keep"
    ELSE IF Len(Strip(buffer)) < FLUSH_MIN THEN "keep"
    ELSE IF HasTerminal(buffer) THEN "flush"
    ELSE "keep"

\* _should_flush_tts (server.py:741-759): "flush" for the stripped text,
\* "keep" for None.
should_flush_tts(buffer) ==
    LET stripped == Strip(buffer) IN
    IF BareMarker(stripped) THEN "keep"
    ELSE IF Len(stripped) < FLUSH_MIN THEN "keep"
    ELSE IF HasTerminal(buffer) THEN "flush"
    ELSE IF Len(buffer) > FLUSH_MAX THEN "flush"
    ELSE "keep"

\* _query_agent asks for the decision (server.py:538).
ShouldFlush ==
    /\ flush_out = "none"
    /\ flush_out' = should_flush_tts(flush_buf)
    /\ UNCHANGED << restVars, wake_enabled, ttsVars, agentVars, speakVars,
                    spotVars, flush_buf, hubVars >>

\* The decision on any buffer.
InitFlush ==
    /\ CtlRest /\ FilterRest /\ PartsRest("flush")
    /\ flush_buf \in Buffers /\ flush_out = "none"

SpecFlush == InitFlush /\ [][ShouldFlush]_vars

\* ---------------------------------------------- ws_hub.py: WSHub
\* The loop of broadcast (ws_hub.py:45-49) over the clients still to
\* visit: a send that raises puts the socket on the dead list, any other
\* delivers the message.
RECURSIVE send_each(_, _, _, _)
send_each(todo, broken, got, dead) ==
    IF todo = {} THEN [got |-> got, dead |-> dead]
    ELSE LET ws == CHOOSE w \in todo : TRUE IN
         IF ws \in broken
         THEN send_each(todo \ {ws}, broken, got, dead \cup {ws})
         ELSE send_each(todo \ {ws}, broken, [got EXCEPT ![ws] = @ + 1],
                        dead)

\* A broadcast without the try around the send: the first send that
\* raises ends it.
broadcast_bare(clients, broken, got) ==
    IF clients \cap broken # {}
    THEN [clients |-> clients, got |-> got, raised |-> TRUE]
    ELSE [clients |-> clients,
          got |-> [ws \in Sockets |->
                      IF ws \in clients THEN got[ws] + 1 ELSE got[ws]],
          raised |-> FALSE]

\* WSHub.broadcast (ws_hub.py:39-51), the lock held from the first send
\* to the last discard.
broadcast(clients, broken, got) ==
    LET r == send_each(clients, broken, got, {}) IN
    [clients |-> clients \ r.dead, got |-> r.got, raised |-> FALSE]

\* One step of the hub: a socket connects (ws_hub.py:28-32), disconnects
\* (ws_hub.py:34-37), loses its peer so that its next send raises, or a
\* message is broadcast.
HubStep(step, ws) ==
    /\ CASE step = "connect" ->
              /\ ws \notin hub_clients
              /\ hub_clients' = hub_clients \cup {ws}
              /\ hub_broken' = hub_broken \ {ws}
              /\ UNCHANGED << hub_got, hub_sent, hub_raised >>
         [] step = "disconnect" ->
              /\ ws \in hub_clients
              /\ hub_clients' = hub_clients \ {ws}
              /\ hub_broken' = hub_broken \ {ws}
              /\ UNCHANGED << hub_got, hub_sent, hub_raised >>
         [] step = "break" ->
              /\ ws \in hub_clients \ hub_broken
              /\ hub_broken' = hub_broken \cup {ws}
              /\ UNCHANGED << hub_clients, hub_got, hub_sent, hub_raised >>
         [] OTHER ->
              /\ ws = 1
              /\ hub_sent < MaxMsgs
              /\ LET r == broadcast(hub_clients, hub_broken, hub_got) IN
                    /\ hub_clients' = r.clients
                    /\ hub_got' = r.got
                    /\ hub_raised' = r.raised
              /\ hub_sent' = hub_sent + 1
              /\ UNCHANGED hub_broken
    /\ UNCHANGED << restVars, wake_enabled, ttsVars, agentVars, speakVars,
                    spotVars, flushVars >>

\* The hub alone.
SpecHub ==
    /\ Init
    /\ [][\E step \in {"connect", "disconnect", "break", "broadcast"},
            ws \in Sockets : HubStep(step, ws)]_vars

\* ---------------------------------------------------------------- types
TypeOK ==
    /\ sm_state \in State
    /\ sm_lock \in 0..MaxTasks
    /\ \A i \in 1..Len(sm_waiters) : sm_waiters[i] \in Slots
    /\ \A i \in 1..Len(hub_queue) : hub_queue[i] \in Slots
    /\ wake_enabled \in BOOLEAN
    /\ stt_active \in BOOLEAN /\ stt_speech \in BOOLEAN
    /\ stt_sentinel \in BOOLEAN
    /\ \A i \in 1..Len(stt_workers) : stt_workers[i] \in Worker
    /\ \A i \in 1..Len(result_queue) : result_queue[i] \in Result
    /\ tts_playing \in BOOLEAN /\ tts_cancelled \in BOOLEAN
    /\ \A i \in 1..Len(conversation_history) :
          conversation_history[i] \in {"user", "assistant"}
    /\ converse_task \in 0..MaxTasks
    /\ converse_enabled \in BOOLEAN
    /\ now \in 0..MaxTime
    /\ tts_started_at \in NoTime..MaxTime
    /\ tts_stopped_at \in NoTime..MaxTime
    /\ tts_echo_suppress_until \in 0..(MaxTime + TTS_ECHO_GUARD_S)
    /\ stt_fed_at \in NoTime..MaxTime
    /\ nWake + nKill <= MaxRequests
    /\ \A i \in 1..Len(requests) :
          requests[i] \in {"wake", "kill", "fired", "heard"}
    /\ nWake \in 0..MaxWake /\ nKill \in 0..MaxKill
    /\ bargein_high_frames \in 0..(BARGEIN_FRAMES_NEEDED - 1)
    /\ bargein_triggered \in BOOLEAN /\ bargein_tts_was_playing \in BOOLEAN
    /\ bargein_cooling \in BOOLEAN /\ bargein_guarding \in BOOLEAN
    /\ bargein_reset_due \in BOOLEAN
    /\ bargein_run \in 0..BARGEIN_FRAMES_NEEDED
    /\ bargein_fires \in 0..MaxFires
    /\ bargein_echo \in BOOLEAN
    /\ agent_stored \in Seq(AgentMessage)
    /\ agent_messages \in Seq(AgentMessage)
    /\ tts_calls \in [1..MaxSpeaks -> SpeakCall]
    /\ tts_proc \in 0..MaxSpeaks
    /\ spot_queue \in Seq(1..MaxFrames)
    /\ spot_taken \in Seq(1..MaxFrames)
    /\ spot_fed \in 0..MaxFrames
    /\ flush_buf \in Seq(Chars)
    /\ flush_out \in {"none", "keep", "flush"}
    /\ hub_clients \subseteq Sockets
    /\ hub_broken \subseteq Sockets
    /\ hub_got \in [Sockets -> 0..MaxMsgs]
    /\ hub_sent \in 0..MaxMsgs
    /\ hub_raised \in BOOLEAN
    /\ heard_words \in Texts /\ heard_speech \in BOOLEAN
    /\ window_mode \in {"wake", "cont", "conv"}
    /\ filter_pc \in {"idle", "worker", "server", "done"}
    /\ final_text \in Texts \cup {NO_SPEECH}
    /\ \A i \in 1..Len(sm_listeners) : sm_listeners[i] \in ListenerKind
    /\ Len(sm_listeners) <= MaxListeners
    /\ \A t \in Slots : sm_iter[t] \in 0..MaxListeners
    /\ \A i \in 1..Len(sm_calls) :
          sm_calls[i] \in (1..MaxListeners) \X State
    /\ \A i \in 1..Len(sm_changes) : sm_changes[i] \in State
    /\ sm_made \in 0..MaxCalls
    /\ fault \in {"none"} \cup FaultPlaces

\* ================================================================ claims
\* The step changes the state, and the kill switch is the caller: the task
\* that made the change holds the lock afterwards.
ByKillSwitch == sm_lock' # 0 /\ tasks'[sm_lock'].cont = "ks_done"

\* C1: every change of the state is one of the pairs of the transition
\* table, or a change to Idle made by the kill switch; no other pair
\* (Idle -> Thinking, Listening -> Conversing, Conversing -> Thinking,
\* Thinking -> Idle without the kill switch, ...) is ever observed.
C1_OnlyTablePairs ==
    [][sm_state' # sm_state =>
          \/ << sm_state, sm_state' >> \in LegalPairs
          \/ sm_state' = "IDLE" /\ ByKillSwitch]_vars

\* The pairs StateMachine.transition is specified to accept: the table,
\* with "any -> Idle" for whoever the caller is.
TablePairs == LegalPairs \cup KillPairs

\* Task t runs the body of StateMachine.transition in this step.
Transits(t) == tasks[t].pc # "tr_sent" /\ tasks'[t].pc = "tr_sent"

\* C2: transition(new) called in state s with (s, new) not a pair of the
\* table is a no-op: the state stays s and no listener is invoked (the
\* caller does not go through the listeners with the lock held).
C2_IllegalIsNoOp ==
    [][\A t \in Slots :
          (Transits(t) /\ << sm_state, tasks'[t].tgt >> \notin TablePairs)
              => (sm_state' = sm_state /\ sm_lock' # t)]_vars

\* The _kill_switch coroutine t returns in this step.
KillCompletes(t) ==
    /\ tasks[t].pc = "tr_sent"
    /\ tasks[t].cont = "ks_done"
    /\ tasks'[t].pc = "free"

\* No request has been made since the last kill-switch request.
KillLast == requests # <<>> /\ requests[Len(requests)] = "kill"

\* C3: when the kill switch completes, no other request having been made
\* meanwhile, the state is Idle, the history is empty, the spotter is
\* armed, the STT window is closed and synthesis is not playing.
C3_KillSwitchLeavesIdle ==
    [][\A t \in Slots : (KillCompletes(t) /\ KillLast) =>
          /\ sm_state' = "IDLE"
          /\ conversation_history' = <<>>
          /\ wake_enabled'
          /\ ~stt_active'
          /\ ~tts_playing']_vars

\* A _kill_switch coroutine has started and not returned.
KillInFlight ==
    \E t \in Slots : tasks[t].pc \in {"tr_wait", "tr_sent"}
                       /\ tasks[t].cont = "ks_done"
\* The last request was a kill switch, and it has completed.
KillDone == KillLast /\ ~KillInFlight

\* C4: after a kill switch has completed, and until a new wake or
\* push-to-talk request is handled, no step changes the state or the
\* history: the coroutines that were in flight make no transition and
\* append nothing.
C4_QuietAfterKill ==
    [][(KillDone /\ requests' = requests) =>
          (sm_state' = sm_state
             /\ conversation_history' = conversation_history)]_vars

\* The wake handler runs in this step with the machine in Speaking.
WakeInSpeaking ==
    /\ sm_state = "SPEAKING"
    /\ requests' = Append(requests, "wake")

\* The wake handler that interrupted Speaking waits for the state machine.
BargeWaiting(t) == tasks[t].pc = "tr_wait" /\ tasks[t].cont = "wk_barge"
\* It has made its transition and the listeners have run.
BargeSent(t) == tasks[t].pc = "tr_sent" /\ tasks[t].cont = "wk_barge"

\* The handler cancels synthesis in the step it runs, before any change of
\* state, and the change it makes or waits to make is to Listening.
BargeCancelsFirst ==
    WakeInSpeaking =>
        /\ ~tts_playing' /\ tts_cancelled'
        /\ \/ sm_state' = "LISTENING" /\ \E t \in Slots : BargeSent(t)'
           \/ sm_state' = "SPEAKING" /\ \E t \in Slots : BargeWaiting(t)'

\* Once the transition is through, the handler opens the STT window.
BargeOpensWindow ==
    \A t \in Slots : (BargeSent(t) /\ tasks'[t] # tasks[t]) =>
        (stt_active' /\ tasks'[t].pc = "ps_loop")

\* C5: a wake handled in Speaking cancels synthesis before the
\* state changes, the next state after Speaking is Listening with no state
\* in between, and the STT window is then opened.
C5_BargeInDirect ==
    [][/\ BargeCancelsFirst
       /\ \A t \in Slots : BargeWaiting(t) =>
             (sm_state' = sm_state \/ sm_state' = "LISTENING")
       /\ BargeOpensWindow]_vars

\* A listening window opened by the wake handler is open: the STT window
\* is armed and a _process_stt task consumes its results.
WindowOpen ==
    /\ stt_active
    /\ \E u \in Slots : tasks[u].pc = "ps_loop" /\ tasks[u].mode = "wake"

\* Task t is in _query_agent from the first spoken chunk on, or in what
\* follows it (_enter_converse_mode, the start of _converse_listen).
ReplyTask(t) ==
    \/ tasks[t].pc \in {"qa_chunk", "qa_wait", "qa_join_loop", "qa_join_rest",
                        "qa_join_last", "qa_done", "cv_begin"}
    \/ /\ tasks[t].pc \in {"tr_wait", "tr_sent"}
       /\ tasks[t].cont \in {"qa_flush", "qa_idle", "cv_enter"}

\* C6: while the listening window opened by a wake that interrupted
\* Speaking is open, a step of the interrupted reply turn leaves the state
\* alone, does not re-arm the wake spotter and starts no STT utterance.
C6_ReplyStaysOut ==
    [][(WindowOpen /\ requests' = requests) =>
          \A t \in Slots : (ReplyTask(t) /\ tasks'[t] # tasks[t]) =>
              /\ sm_state' = sm_state
              /\ wake_enabled' = wake_enabled
              /\ stt_workers' = stt_workers]_vars

\* start_utterance runs in this step (stt.py:125-163): a new thread is put
\* after the ones still alive.
StartsUtterance ==
    stt_workers' = Append(LiveWorkers(stt_workers), [st |-> "run"])

\* C7: start_utterance is never called while a previously started
\* utterance is still open or its worker thread still runs, so that at
\* most one utterance is active at any time.
C7_OneUtterance ==
    [][StartsUtterance =>
          (~stt_active /\ LiveWorkers(stt_workers) = <<>>)]_vars

\* No coroutine is inside StateMachine.transition: none waits for the lock
\* and none is in the listeners' broadcast.
Settled == \A t \in Slots : tasks[t].pc \notin {"tr_wait", "tr_sent"}

\* The acknowledgement is being played (server.py:408).
AckPlaying == tts_playing /\ \E t \in Slots : tasks[t].pc = "ack_speak"

\* C8: whenever no transition is in progress, the wake spotter is enabled
\* exactly when the state is Idle and no acknowledgement is being played:
\* disabled throughout Listening, Thinking, Speaking and Conversing,
\* enabled in Idle.
C8_SpotterIffIdle ==
    Settled => (wake_enabled <=> (sm_state = "IDLE" /\ ~AckPlaying))

\* C9: whenever no transition is in progress, the STT window is armed
\* exactly when the state is Listening, or Conversing with speech
\* confirmed; not in Idle, Thinking or Speaking, nor in Conversing before
\* speech is confirmed.
C9_SttIffListening ==
    Settled =>
        (stt_active <=>
            (sm_state = "LISTENING"
                \/ (sm_state = "CONVERSING" /\ stt_speech)))

\* A block is given to stt.feed_audio in this step.
FrameFed == stt_fed_at' # stt_fed_at

\* C10: no block captured while the player reports is_playing, and none
\* captured within the echo guard after the instant playback stopped, is
\* given to stt.feed_audio.
C10_EchoGuard ==
    [][FrameFed =>
          /\ ~tts_playing
          /\ \/ tts_stopped_at = NoTime
             \/ stt_fed_at' >= tts_stopped_at + TTS_ECHO_GUARD_S]_vars

\* The barge-in tracker fires on this step.
BargeFires == bargein_triggered' /\ ~bargein_triggered

\* C11: the barge-in tracker fires only on a frame that completes a run of
\* BARGEIN_FRAMES_NEEDED qualifying frames in a row (a shorter run never
\* fires), and it fires at most once in a Speaking session.
C11_BargeInFires ==
    [][BargeFires =>
          /\ bargein_run' >= BARGEIN_FRAMES_NEEDED
          /\ bargein_fires = 0]_vars

\* Task t's _query_agent finishes its turn on this step: the history update
\* is behind it and the call that ends the turn is made.
TurnCompletes(t) ==
    /\ tasks[t].pc = "qa_done"
    /\ tasks'[t].cont \in {"cv_enter", "qa_idle"}

\* C12: after any completed turn, the one with an empty reply or a backend
\* error included, the conversation history holds at most MAX_HISTORY
\* entries.
C12_HistoryCapped ==
    [][(\E t \in Slots : TurnCompletes(t)) =>
          Len(conversation_history') <= MAX_HISTORY]_vars

\* The listening loop of task t calls stop_utterance on this step: the
\* branch of PsItem taken in Listening on the timer, on silence or on the
\* maximum duration.
LoopStops(t) ==
    /\ tasks[t].pc = "ps_loop"
    /\ tasks'[t].pc = "ps_drain"
    /\ sm_state = "LISTENING"
    /\ HasItem

\* C13: stop_utterance is invoked once for a listening window, whichever of
\* the loop, push-to-talk stop and the kill switch closes it: the loop
\* never stops a window that has been stopped already.
C13_StoppedOnce ==
    [][\A t \in Slots : LoopStops(t) => stt_active]_vars

\* The final text sends the machine back to Idle (server.py:499, 665).
Discarded == final_text \in {<<>>, NO_SPEECH}

\* The words split evenly into two identical halves, six words or more.
EvenRepeat(words) ==
    /\ Len(words) >= 6
    /\ Len(words) % 2 = 0
    /\ SubSeq(words, 1, Len(words) \div 2) =
          SubSeq(words, Len(words) \div 2 + 1, Len(words))

Changer == tasks[sm_lock']

C16_SilentWindow ==
    [][(/\ sm_state = "LISTENING"
        /\ sm_state' # sm_state
        /\ Changer.mode = "wake"
        /\ ~stt_speech \/ Changer.ft \in {"empty", "sentinel"}) =>
          (sm_state' = "IDLE" /\ wake_enabled' /\ ~stt_active')]_vars

\* C17: with conversation mode enabled and a non-empty reply, if no
\* follow-up speech is confirmed within the deadline the machine goes
\* Speaking, Conversing, Idle: Conversing is left for Idle with the spotter
\* armed again, and the follow-up window opens no backend call.
C17_QuietFollowUp ==
    [][(/\ converse_enabled
        /\ sm_state = "CONVERSING"
        /\ sm_state' # sm_state
        /\ ~stt_speech) =>
          (sm_state' = "IDLE" /\ wake_enabled')]_vars

\* The state before the i-th assignment to _state (Idle at first,
\* state.py:26).
StateBefore(i) == IF i = 1 THEN "IDLE" ELSE sm_changes[i - 1]

\* C18: transition(s) called when the state is already s leaves the state
\* unchanged and invokes no listener, for every s and however often it is
\* repeated: _state is never assigned the value it has, and the listeners
\* are invoked for assignments only.
C18_Idempotent ==
    /\ \A i \in 1..Len(sm_changes) : sm_changes[i] # StateBefore(i)
    /\ Len(sm_calls) <= Len(sm_listeners) * Len(sm_changes)

\* Two calls of transition found the state they asked for, around a call
\* that changed it, with listeners registered, and all have returned.
C18_Repeated ==
    /\ sm_listeners # <<>>
    /\ sm_changes # <<>>
    /\ sm_made >= Len(sm_changes) + 2
    /\ \A t \in Slots : IsFree(t)

\* Task t leaves the listener loop of transition on this step.
SmReturns(t) == tasks[t].pc = "sm_notify" /\ tasks'[t].pc # "sm_notify"

\* C19: when a transition to a different state returns, every registered
\* listener has been invoked exactly once for it, in registration order,
\* with the new state; a listener that raised has not kept the later ones
\* from being invoked, the state is the new one, and the caller gets no
\* error.
C19_AllNotified ==
    [][\A t \in Slots : SmReturns(t) =>
          LET n == Len(sm_listeners)
              c == sm_calls'
          IN /\ tasks'[t].pc = "free"
             /\ sm_state' = tasks[t].tgt
             /\ Len(c) = n * Len(sm_changes')
             /\ \A k \in 1..n :
                   c[Len(c) - n + k] = << k, tasks[t].tgt >>]_vars

\* A transition has returned with a raising listener registered before
\* one that returns: both were invoked.
C19_RaisedAndWentOn ==
    /\ sm_listeners = << "raises", "returns" >>
    /\ sm_changes # <<>>
    /\ Len(sm_calls) = 2
    /\ \A t \in Slots : IsFree(t)

\* C20: concurrent calls of transition do not interleave: the listeners
\* are invoked in one order, that of the state changes, each change's
\* invocations together, and all invocations of a change are made before
\* the next change.
C20_Serialized ==
    LET n == Len(sm_listeners) IN
    /\ \A i \in 1..Len(sm_calls) :
          /\ ((i - 1) \div n) + 1 <= Len(sm_changes)
          /\ sm_calls[i] =
                << ((i - 1) % n) + 1, sm_changes[((i - 1) \div n) + 1] >>
    /\ Len(sm_calls) >= n * (Len(sm_changes) - 1)

\* A second change is being notified while another caller waits for the
\* lock.
C20_Contended ==
    /\ sm_lock # 0
    /\ sm_waiters # <<>>
    /\ Len(sm_changes) >= 2
    /\ Len(sm_calls) > Len(sm_listeners)

\* An exception is caught on this step.
Caught == fault' # fault

\* The coroutine that published the error goes on into the kill switch:
\* it calls the transition to Idle as _kill_switch does, with the history
\* cleared and the spotter armed.
KillFollows(t) ==
    /\ tasks'[t].pc \in {"tr_wait", "tr_sent"}
    /\ tasks'[t].tgt = "IDLE" /\ tasks'[t].cont = "ks_done"
    /\ conversation_history' = <<>>
    /\ wake_enabled'

\* C21: an error raised inside the turn loop (listening procedure,
\* conversing window, continuation, reply stream, speaking a sentence) is
\* caught and published to the hub as an error event, and the kill switch
\* follows the publication, leaving Idle, an empty history and the spotter
\* armed.
C21_ErrorsRecovered ==
    [][/\ Caught => \E t \in Slots : tasks'[t].pc = "er_sent"
       /\ \A t \in Slots :
             (tasks[t].pc = "er_sent" /\ tasks'[t] # tasks[t])
                 => KillFollows(t)]_vars

\* The machine is in Idle with the wake spotter armed.
IdleArmed == sm_state = "IDLE" /\ wake_enabled

\* C22: from every reachable state, once the wake requests and the user's
\* speech stop and every collaborator call returns or fails, the machine
\* reaches Idle with the wake spotter armed, with no kill switch; so also
\* after an exception of the STT, the TTS or the backend.
C22_BackToIdle == <>[][~FeedAudio(TRUE)]_vars => []<>IdleArmed

\* A state event with value v is on its way to the observers of the hub:
\* a coroutine is in the listener's broadcast of transition(v), or in the
\* hub.send_state(v) that follows it.
Sending(v) == \E t \in Slots : tasks[t].pc = "tr_sent" /\ tasks[t].tgt = v

\* The wake request has been handled; the machine was in Idle.
WakeHandled == requests = << "wake" >>

\* C23: after a manual wake handled in Idle the observers of the hub
\* receive a state event SPEAKING, for the acknowledgement, and a state
\* event LISTENING (in a run in which no exception is raised).
C23_WakeEvents ==
    [](fault = "none") =>
        /\ WakeHandled ~> Sending("SPEAKING")
        /\ WakeHandled ~> Sending("LISTENING")

\* The wake has been handled in Idle and its acknowledgement has not
\* finished playing: the handler is in its transition, or the
\* acknowledgement task is about to call tts.speak or is inside it.
AckPending ==
    \E t \in Slots :
        \/ tasks[t].pc \in {"ack_begin", "ack_speak"}
        \/ tasks[t].pc \in {"tr_wait", "tr_sent"} /\ tasks[t].cont = "wk_ack"

\* C24: on a wake handled in Idle the spotter is disarmed first, the
\* acknowledgement is played, and only after its playback has finished
\* does the state become Listening and the STT window open: until then the
\* spotter is disarmed, the state is not Listening and the window is shut.
C24_AckThenListen ==
    AckPending =>
        (~wake_enabled /\ sm_state # "LISTENING" /\ ~stt_active)

\* Task t is inside a call of tts.speak: its synthesis task speaks a
\* sentence of a reply, or it speaks the acknowledgement.
InSpeak(t) == tasks[t].say = "speaking" \/ tasks[t].pc = "ack_speak"

\* C25: at most one synthesis playback is in progress at any time: no two
\* calls of tts.speak (two sentences of a reply, sentences of two replies,
\* a sentence and an acknowledgement) overlap.
C25_OnePlayback == Cardinality({ t \in Slots : InSpeak(t) }) <= 1

\* The wake handler runs on this step.
WakeRuns == requests' = Append(requests, "wake")

\* C26: a wake handled while the state is Listening or Thinking is
\* ignored: the state is unchanged, no STT window and no synthesis is
\* started or stopped, and the coroutines of the current turn, a turn that
\* runs as the conversing follow-up task included, go on unaffected.
C26_WakeIgnored ==
    [][(WakeRuns /\ sm_state \in {"LISTENING", "THINKING"}) =>
          /\ sm_state' = sm_state
          /\ UNCHANGED << sttVars, ttsVars >>
          /\ tasks' = tasks]_vars

\* C27: in a Conversing window, once follow-up speech is confirmed the
\* machine leaves Conversing for Listening, and a follow-up turn never
\* goes from Conversing to Thinking without passing through Listening.
C27_FollowUpListens ==
    [][(sm_state = "CONVERSING" /\ sm_state' # sm_state) =>
          /\ sm_state' # "THINKING"
          /\ stt_speech => sm_state' = "LISTENING"]_vars

\* The same daemon with further wake requests that find the machine in
\* Listening or in Thinking (_on_wake, server.py:361-387).
NextAgain ==
    \/ NextFail
    \/ sm_state \in {"LISTENING", "THINKING"} /\ OnWake

SpecAgain == Init /\ [][NextAgain]_vars /\ LiveFair

\* C28: every listening window ends without a kill switch: once the state
\* is Listening it becomes Thinking or Idle (final transcript, no-speech
\* give-up, silence after speech or the maximum duration); and every
\* Conversing window ends (in a run in which no exception is raised).
C28_WindowsEnd ==
    [](fault = "none") =>
        /\ (sm_state = "LISTENING") ~> (sm_state \in {"THINKING", "IDLE"})
        /\ (sm_state = "CONVERSING") ~> (sm_state # "CONVERSING")

\* The tracker as the policy reads and writes it.
Tracker == << bargein_high_frames, bargein_triggered,
              bargein_tts_was_playing >>

\* The policy has evaluated a frame on this step and the tracker, the run
\* of qualifying frames or the count of fires shows it.
FrameCounted ==
    /\ sm_state = "SPEAKING" /\ sm_state' = "SPEAKING"
    /\ bargein_reset_due = bargein_reset_due'
    /\ << Tracker, bargein_run, bargein_fires >>' #
           << Tracker, bargein_run, bargein_fires >>
    /\ bargein_cooling' = bargein_cooling
    /\ bargein_echo' = bargein_echo

\* C29: on every entry into Speaking the tracker is fresh before any frame
\* of the session is evaluated: between the entry and _reset_bargein no
\* frame is counted against the tracker of the session before, and no
\* barge-in fires before the cooldown that follows the entry has run out.
C29_FreshTracker ==
    [][/\ FrameCounted => ~bargein_reset_due
       /\ BargeFires => (~bargein_reset_due /\ ~bargein_cooling)]_vars

\* The policy has evaluated, on this step, a frame captured while synthesis
\* was playing or less than the guard after playback stopped.
EchoFrame == FrameCounted /\ tts_playing' = tts_playing
                          /\ (tts_playing \/ bargein_echo)

\* C30: within a Speaking session a frame captured while synthesis is
\* playing, or within the post-playback guard after any change from playing
\* to stopped, never increments the counter and never fires a barge-in; the
\* counter is zero after the frame.
C30_EchoIgnored ==
    [][EchoFrame => (bargein_high_frames' = 0 /\ ~BargeFires)]_vars

\* ------------------------------ server.py, wake.py: the hand-off
\* The tracker fires on the capture thread while the state is Speaking and
\* schedules _on_wake on the control loop ("fired", server.py:827-833,
\* 914-916); the spotter's thread matches the wake phrase in a frame it
\* was fed while enabled and schedules _on_wake ("heard", wake.py:102-109,
\* 163-184); the loop runs the scheduled coroutine when it comes to it
\* ("handled", server.py:361-402).  A detection is recorded in requests;
\* it is pending until the wake it scheduled has been appended.
BargePending ==
    /\ requests # <<>>
    /\ requests[Len(requests)] = "fired"

\* The spotter's detection is pending.
HeardPending == requests = << "heard" >>

\* The detection run inline on the thread that made it.
HandlerInline(step) ==
    IF step = "handled"
    THEN (BargePending \/ HeardPending) /\ OnWake
    ELSE /\ step = "fired" /\ sm_state = "SPEAKING"
         /\ \A i \in 1..Len(requests) : requests[i] # "fired"
         /\ requests' = Append(requests, step)
         /\ on_wake

BargeHandOff(step) ==
    CASE step = "fired" ->
         /\ sm_state = "SPEAKING"
         /\ \A i \in 1..Len(requests) : requests[i] # "fired"
         /\ requests' = Append(requests, "fired")
         /\ UNCHANGED << smVars, hub_queue, wake_enabled, sttVars, ttsVars,
                         conversation_history, converse_task,
                         converse_enabled, tasks, sideVars >>
      [] step = "heard" ->
         /\ wake_enabled
         /\ requests = <<>>
         /\ requests' = << "heard" >>
         /\ UNCHANGED << smVars, hub_queue, wake_enabled, sttVars, ttsVars,
                         conversation_history, converse_task,
                         converse_enabled, tasks, sideVars >>
      [] OTHER ->
         /\ BargePending \/ HeardPending
         /\ OnWake

\* One wake, requested of the control loop or heard by the spotter, and
\* its turn, with a barge-in trigger fired while the reply is spoken.
NextHandOff ==
    \/ NextTurn
    \/ \E step \in {"fired", "heard", "handled"} : BargeHandOff(step)

SpecHandOff == Init /\ [][NextHandOff]_vars

\* The wake handler scheduled by the tracker runs on this step.
BargeHandled == BargePending /\ requests' = Append(requests, "wake")

\* C31: a barge-in trigger acts only as an interruption of Speaking: when
\* the scheduled wake handler runs and the state is no longer Speaking, it
\* makes no transition, starts no task (acknowledgement, listening loop)
\* and opens no STT window.
C31_LateTriggerIgnored ==
    [][(BargeHandled /\ sm_state # "SPEAKING") =>
          /\ sm_state' = sm_state
          /\ \A t \in Slots : tasks[t].pc = "free" => tasks'[t].pc = "free"
          /\ UNCHANGED << wake_enabled, sttVars >>]_vars

\* A step of a thread other than the control loop: a transcription
\* worker's, the capture thread's feed of the STT window, the tracker's
\* trigger on the capture thread, the spotter's detection.
ThreadStep ==
    \/ \E i \in 1..MaxWorkers : WorkerStep(i)
    \/ \E speech \in BOOLEAN : FeedAudio(speech)
    \/ BargeHandOff("fired")
    \/ BargeHandOff("heard")

\* C32: no step of the capture, spotter or transcription threads changes
\* the conversation state or the history or runs the wake handler inline
\* (no task is started or cancelled, the spotter is not disarmed, playback
\* is not cancelled): a detection only schedules the handler.
C32_ThreadsOnlySchedule ==
    [][ThreadStep =>
          UNCHANGED << smVars, conversation_history, tasks, converse_task,
                       wake_enabled, ttsVars, hub_queue >>]_vars

\* A trigger of the tracker is scheduled and not yet handled, the reply
\* still being spoken.
C32_TriggerScheduled == BargePending /\ sm_state = "SPEAKING"

\* A result is put on the result queue on this step.
ResultPut == Len(result_queue') = Len(result_queue) + 1

\* The thread that ends on this step is not the one the open window
\* started (STTEngine._thread, the last of stt_workers): it was started
\* by an earlier start_utterance.
EarlierWorkerEnds == Len(stt_workers') < Len(stt_workers)

\* C33: every result a window consumes was produced by the window's own
\* transcription thread: the final result of a thread started for an
\* earlier utterance is never put on the result queue of a later window.
C33_OwnResults ==
    [][ResultPut => ~EarlierWorkerEnds]_vars

\* stop_utterance is called on this step.
WindowCloses == stt_active /\ ~stt_active'

\* A thread is in its loop although its window has been closed.
ClosedThreadInLoop ==
    /\ ~stt_active
    /\ \E i \in 1..Len(stt_workers) : stt_workers[i].st = "run"

\* C34: when a window is closed with stop_utterance the queued frames are
\* discarded and the sentinel is enqueued, frames fed afterwards are not
\* accepted, and the window's thread stops consuming frames and ends after
\* one final result: as long as it is in its loop the window stays closed
\* to it, and the results it puts from then on are final.
C34_ClosedWindowEnds ==
    [][/\ WindowCloses => stt_sentinel'
       /\ (~stt_active /\ ~stt_active') => stt_speech' = stt_speech
       /\ ClosedThreadInLoop =>
             /\ ~stt_active'
             /\ ResultPut =>
                   result_queue'[Len(result_queue')].final]_vars

\* The wake handler runs in this step with the machine in Conversing.
WakeInConversing ==
    /\ sm_state = "CONVERSING"
    /\ requests' = Append(requests, "wake")

\* Task t is the conversing window's: _enter_converse_mode about to create
\* it, or _converse_listen.
ConversingTask(t) ==
    \/ tasks[t].pc \in {"cv_begin", "cv_loop", "cv_psent", "cv_fsent"}
    \/ tasks[t].pc \in {"tr_wait", "tr_sent"} /\ tasks[t].cont = "cv_enter"

\* The wake handler that found Conversing waits for the state machine, or
\* has made its transition.
StartWaiting(t) == tasks[t].pc = "tr_wait" /\ tasks[t].cont = "wk_start"
StartSent(t) == tasks[t].pc = "tr_sent" /\ tasks[t].cont = "wk_start"

\* C35: a wake handled in Conversing cancels the conversing window's task,
\* plays no acknowledgement, makes Listening the next state after
\* Conversing with no state in between, and then opens the STT window of
\* the new turn.
C35_ConversingWake ==
    [][/\ WakeInConversing =>
             /\ converse_task' = 0
             /\ \A t \in Slots : ~ConversingTask(t)'
             /\ UNCHANGED ttsVars
             /\ \/ sm_state' = "LISTENING" /\ \E t \in Slots : StartSent(t)'
                \/ sm_state' = "CONVERSING" /\ \E t \in Slots : StartWaiting(t)'
       /\ \A t \in Slots : StartWaiting(t) =>
             (sm_state' = sm_state \/ sm_state' = "LISTENING")
       /\ \A t \in Slots : (StartSent(t) /\ tasks'[t] # tasks[t]) =>
             (stt_active' /\ tasks'[t].pc = "ps_loop")]_vars

\* The user turn of the request made on this step.
NewTurn == agent_stored'[Len(agent_stored')]

\* C36: the message list sent to the backend for a turn is the prior
\* history in order followed by the new user turn exactly once, and the
\* stored history is what it was with the turn recorded once.
C36_MessagesOnce ==
    [][agent_messages' # agent_messages =>
          /\ agent_messages' = Append(agent_stored, NewTurn)
          /\ agent_stored' = Append(agent_stored, NewTurn)]_vars

\* TTSEngine.cancel is called on this step with a call in flight.
CancelCalled ==
    \E c \in 1..MaxSpeaks : tts_calls'[c].hit /\ ~tts_calls[c].hit

\* C37: after TTSEngine.cancel is_playing is false, and a call of speak
\* that was in flight at the cancel plays no audio afterwards and returns
\* not completed, a new call of speak started before its return
\* notwithstanding.
C37_CancelStops ==
    [][/\ CancelCalled => ~tts_playing'
       /\ \A c \in 1..MaxSpeaks : tts_calls'[c].hit =>
             /\ tts_calls'[c].st # "play"
             /\ tts_calls'[c].st = "ret" => ~tts_calls'[c].ok]_vars

\* The frames taken and the frames queued, in that order, are in the
\* order of capture.
InArrivalOrder ==
    LET all == spot_taken \o spot_queue IN
    \A i, j \in 1..Len(all) : i < j => all[i] < all[j]

\* The capture thread offers a frame on this step.
FrameOffered == spot_fed' = spot_fed + 1

\* C38: the spotter's queue never holds more than its capacity; a frame
\* offered when it is full is dropped and the capture thread goes on (the
\* offer is never made to wait); a frame offered while the spotter is
\* disabled is not enqueued; the frames enqueued are taken in the order
\* of arrival.
C38_SpotterQueue ==
    /\ [](Len(spot_queue) <= WAKE_QUEUE_MAX)
    /\ [](InArrivalOrder)
    /\ [](spot_fed < MaxFrames => ENABLED SpotStep("feed"))
    /\ [][FrameOffered =>
            IF wake_enabled /\ Len(spot_queue) < WAKE_QUEUE_MAX
            THEN spot_queue' = Append(spot_queue, spot_fed')
            ELSE spot_queue' = spot_queue]_vars

\* The queue is full, the spotter armed, and the frame offered last is
\* not in the queue: it was dropped.
C38_FrameDropped ==
    /\ wake_enabled
    /\ Len(spot_queue) = WAKE_QUEUE_MAX
    /\ spot_taken = <<>>
    /\ spot_queue = [i \in 1..WAKE_QUEUE_MAX |-> i]
    /\ spot_fed > WAKE_QUEUE_MAX

\* The buffer is to be flushed, as the rule is stated: a terminal
\* character, no bare list marker and the minimum content; or, whatever
\* else holds, more than the maximum length.
FlushDue ==
    \/ /\ HasTerminal(flush_buf)
       /\ ~BareMarker(Strip(flush_buf))
       /\ Len(Strip(flush_buf)) >= FLUSH_MIN
    \/ Len(flush_buf) > FLUSH_MAX

\* C39: the sentence-flush decision flushes the buffer exactly when it
\* holds a sentence-terminal character, is not a bare numeric list marker
\* and has the minimum content, or when, regardless of the rest, it is
\* longer than the maximum; otherwise it keeps buffering.
C39_FlushRule ==
    [][flush_out' # flush_out => (flush_out' = "flush" <=> FlushDue)]_vars

\* A broadcast has been made.
BroadcastDone == hub_sent' = hub_sent + 1

\* C40: a broadcast does not raise to its caller when a send fails; the
\* socket whose send failed is out of the client set afterwards, and
\* every other connected socket has been sent the message and is still
\* connected.
C40_BroadcastSwallows ==
    [][BroadcastDone =>
         /\ ~hub_raised'
         /\ \A ws \in hub_clients :
               IF ws \in hub_broken
               THEN ws \notin hub_clients' /\ hub_got'[ws] = hub_got[ws]
               ELSE ws \in hub_clients' /\ hub_got'[ws] = hub_got[ws] + 1
         /\ hub_clients' \subseteq hub_clients]_vars

\* A broadcast met a failing send: a socket whose send raised is out of
\* the client set (only a broadcast leaves a broken socket out of it),
\* another is still connected and has every message.
C40_FailedSendDropped ==
    \E dead \in hub_broken \ hub_clients, ws \in hub_clients :
       /\ hub_got[ws] = hub_sent /\ hub_sent > 0
       /\ hub_got[dead] < hub_sent
       /\ ~hub_raised

====
